---- MODULE Spec2Model ----
(***************************************************************************)
(* Bulk image uploader: the upload orchestrator of                         *)
(* app/utils/imageQueue.server.ts as a state machine.  One process per     *)
(* request ("run") executing processUploadQueue; one task per file         *)
(* executing processOneUpload behind the module-level p-limit limiter.     *)
(* Every await of the source is a step boundary: an action is the code     *)
(* that runs from one await to the next.                                   *)
(***************************************************************************)
EXTENDS Integers, Sequences, FiniteSets, TLC

\* ------------------------------------------------------------------ bounds
\* Files per run (over all its SKU groups) and injected transport failures per behaviour.
MaxFiles == 3
MaxFailures == 2

\* Characters in a file name given to parseFilename.
MaxNameLen == 5

\* --------------------------------------------------------------- constants
MAX_CONCURRENT == 5
\* The smallest load that saturates the limiter: one file more than it has slots.
PoolFiles == MAX_CONCURRENT + 1

Runs == {"r1", "r2"}
Strategies == {"replace", "prepend", "append"}
Undefined == "undefined"

\* ProductData as returned by the lookup: one product with a gallery, one without.
ProductWithMedia ==
    [id |-> "gid://shopify/Product/1", title |-> "Product 1", mediaIds |-> <<"m1", "m2">>]
ProductNoMedia ==
    [id |-> "gid://shopify/Product/2", title |-> "Product 2", mediaIds |-> <<>>]
Products == {ProductWithMedia, ProductNoMedia}
\* media(first: 100): the lookup and the reorder step read one page of the gallery.
MediaPageSize == 100
\* A product whose gallery fills that page.
ProductFullPage ==
    [id |-> "gid://shopify/Product/3", title |-> "Product 3",
     mediaIds |-> [k \in 1..MediaPageSize |-> "m" \o ToString(k)]]
Catalog == Products \cup {ProductFullPage}

\* The message a transport function throws.  Every throw of one function reaches the
\* same catch of the caller and differs in its text only; one message stands for them.
CreateStagedUploadErrors == {"Failed to create staged upload"}
UploadToStagedTargetErrors == {"Failed to upload file"}
CreateProductMediaErrors == {"Failed to create media"}
DeleteProductMediaErrors == {"Failed to delete media"}
ReorderProductMediaErrors == {"Failed to reorder media"}
\* The gallery read of reorderProductMedia: a response with data, or one with errors.
GalleryReadOutcomes == {"ok", "errors"}

UploadSteps == <<"createStagedUpload", "uploadToStagedTarget", "createProductMedia">>
StepErrors(k) ==
    CASE k = 1 -> CreateStagedUploadErrors
      [] k = 2 -> UploadToStagedTargetErrors
      [] k = 3 -> CreateProductMediaErrors

\* ------------------------------------------------------------------ inputs
SkuOf(g) == "SKU-" \o ToString(g)
FileOf(sku, n) == [originalFilename |-> <<sku, n>>, sku |-> sku, sortOrder |-> n]
GroupOf(g, n) == [sku |-> SkuOf(g), files |-> [i \in 1..n |-> FileOf(SkuOf(g), i)]]
RECURSIVE SumSeq(_)
SumSeq(c) == IF Len(c) = 0 THEN 0 ELSE Head(c) + SumSeq(Tail(c))
\* groupedFiles as its Object.entries sequence: non-empty groups of maxF files in all.
GroupedFilesInputs(maxF) ==
    UNION {{[g \in 1..k |-> GroupOf(g, c[g])] :
              c \in {d \in [1..k -> 1..maxF] : SumSeq(d) <= maxF}} : k \in 1..maxF}
SkusOf(groups) == {groups[g].sku : g \in 1..Len(groups)}
\* productMap: a Map whose keys are the SKUs the lookup resolved.
ProductMapOver(groups, products) == UNION {[S -> products] : S \in SUBSET SkusOf(groups)}
ProductMapInputs(groups) == ProductMapOver(groups, Products)
SettingsInputs == [dryRun : BOOLEAN, uploadStrategy : Strategies]
RunInputs(maxF) ==
    UNION {[groupedFiles : {gf}, productMap : ProductMapInputs(gf), settings : SettingsInputs] :
             gf \in GroupedFilesInputs(maxF)}
\* A run of one SKU group of n files.
OneGroupInputs(n) ==
    [groupedFiles : {<<GroupOf(1, n)>>}, productMap : ProductMapInputs(<<GroupOf(1, n)>>),
     settings : SettingsInputs]
NoRun ==
    [groupedFiles |-> <<>>, productMap |-> <<>>,
     settings |-> [dryRun |-> FALSE, uploadStrategy |-> "append"]]

VARIABLES
    groupedFiles,   \* [run -> sequence of [sku, files]]: processUploadQueue's first argument
    productMap,     \* [run -> [resolved SKUs -> ProductData]]
    settings,       \* [run -> UploadSettings]
    pc,             \* [run -> "idle" | "loop" | "delete" | "await" | "reorder" | "moves" | "done"]
    gi,             \* [run -> index of the SKU group the for-loop is at]
    results,        \* [run -> processProductFiles' local results]
    allResults,     \* [run -> processUploadQueue's allResults]
    uploads,        \* [run -> [group -> sequence of upload tasks, empty until dispatched]]
    queue,          \* the limiter's FIFO queue of task ids <<run, group, index>>
    activeCount,    \* the limiter's count of running tasks
    deleteCall,     \* [run -> [group -> record of the group's deleteProductMedia call]]
    reorderCall,    \* [run -> [group -> record of the group's reorderProductMedia call]]
    failures,       \* number of transport failures injected so far
    gallery,        \* the remote galleries: [product id -> sequence of media ids]
    request,        \* [run -> the form the route's action received]
    apc,            \* [run -> "none" | "start" | "lookup" | "queue" | "returned"]: the action
    uniqueSKUs,     \* [run -> getUniqueSKUs(validFiles)]
    lookups,        \* [run -> outcomes of the queryProductBySKU calls returned so far]
    response,       \* [run -> the ActionResponse the action returned]
    input,          \* the argument of a pure function under check
    output          \* what the function returned for it

vars ==
    <<groupedFiles, productMap, settings, pc, gi, results, allResults, uploads, queue,
      activeCount, deleteCall, reorderCall, failures, gallery, request, apc, uniqueSKUs,
      lookups, response, input, output>>
inputVars == <<groupedFiles, productMap, settings>>
routeVars == <<request, apc, uniqueSKUs, lookups, response>>
pureVars == <<input, output>>

\* ------------------------------------------------------- ProcessingResult
NoResult ==
    [filename |-> Undefined, detectedSku |-> Undefined, productFound |-> FALSE,
     productTitle |-> Undefined, productId |-> Undefined, status |-> Undefined,
     errorDetails |-> Undefined]
SuccessResult(file, product) ==
    [filename |-> file.originalFilename, detectedSku |-> file.sku, productFound |-> TRUE,
     productTitle |-> product.title, productId |-> product.id, status |-> "success",
     errorDetails |-> Undefined]
\* ErrorResult with the catch returning a result without the product.
ErrorResultWithoutProduct(file, product, message) ==
    [filename |-> file.originalFilename, detectedSku |-> file.sku, productFound |-> FALSE,
     productTitle |-> Undefined, productId |-> Undefined, status |-> "error",
     errorDetails |-> message]
ErrorResult(file, product, message) ==
    [filename |-> file.originalFilename, detectedSku |-> file.sku, productFound |-> TRUE,
     productTitle |-> product.title, productId |-> product.id, status |-> "error",
     errorDetails |-> message]
SkippedResultAsError(file, sku) ==
    [filename |-> file.originalFilename, detectedSku |-> file.sku, productFound |-> FALSE,
     productTitle |-> Undefined, productId |-> Undefined, status |-> "error",
     errorDetails |-> <<"No product found with SKU: ", sku>>]
SkippedResult(file, sku) ==
    [filename |-> file.originalFilename, detectedSku |-> file.sku, productFound |-> FALSE,
     productTitle |-> Undefined, productId |-> Undefined, status |-> "skipped",
     errorDetails |-> <<"No product found with SKU: ", sku>>]
DryRunResult(file, product) ==
    [filename |-> file.originalFilename, detectedSku |-> file.sku, productFound |-> TRUE,
     productTitle |-> product.title, productId |-> product.id, status |-> "dry-run",
     errorDetails |-> Undefined]

\* ----------------------------------------------------------------- helpers
NumGroups(r) == Len(groupedFiles[r])
GroupIds(r) == 1..NumGroups(r)
HasProduct(r, g) == groupedFiles[r][g].sku \in DOMAIN productMap[r]
ProductOf(r, g) == productMap[r][groupedFiles[r][g].sku]

\* [...files].sort((a, b) => a.sortOrder - b.sortOrder): a stable sort.  A file's
\* place is the number of files that sort before it: those of smaller sortOrder and
\* those of equal sortOrder that come earlier.
SortsBeforeTiesReversed(fs, j, i) ==
    \/ fs[j].sortOrder < fs[i].sortOrder
    \/ fs[j].sortOrder = fs[i].sortOrder /\ j > i
SortsBefore(fs, j, i) ==
    \/ fs[j].sortOrder < fs[i].sortOrder
    \/ fs[j].sortOrder = fs[i].sortOrder /\ j < i
SortBySortOrderUnstable(fs) ==
    [k \in 1..Len(fs) |->
        fs[CHOOSE i \in 1..Len(fs) :
               Cardinality({j \in 1..Len(fs) : SortsBeforeTiesReversed(fs, j, i)}) = k - 1]]
SortBySortOrder(fs) ==
    [k \in 1..Len(fs) |->
        fs[CHOOSE i \in 1..Len(fs) :
               Cardinality({j \in 1..Len(fs) : SortsBefore(fs, j, i)}) = k - 1]]
SortedFiles(r, g) == SortBySortOrder(groupedFiles[r][g].files)

TaskOf(t) == uploads[t[1]][t[2]][t[3]]
TaskIdsOf(r, g) == {<<r, g, i>> : i \in 1..Len(uploads[r][g])}
LiveTaskIds == UNION {UNION {TaskIdsOf(r, g) : g \in GroupIds(r)} : r \in Runs}
Settled(task) == task.state \in {"MediaRegistered", "Error"}
InFlight(task) == task.state \in {"Requested", "StagedTargetReady", "BytesUploaded"}

QueuedTask == [state |-> "queued", issued |-> <<>>, returned |-> <<>>, result |-> NoResult]
\* run() of the limiter calls processOneUpload, which runs up to its first await:
\* the createStagedUpload request is issued.
StartedTask(task) == [task EXCEPT !.state = "Requested", !.issued = <<UploadSteps[1]>>]

\* Transport calls issued so far on behalf of product `id` by the upload tasks of run r.
RECURSIVE SumLen(_)
SumLen(ss) == IF Len(ss) = 0 THEN 0 ELSE Len(Head(ss).issued) + SumLen(Tail(ss))
RECURSIVE UploadCallsUpTo(_, _, _)
UploadCallsUpTo(r, id, g) ==
    IF g = 0 THEN 0
    ELSE UploadCallsUpTo(r, id, g - 1) +
         (IF HasProduct(r, g) /\ ProductOf(r, g).id = id THEN SumLen(uploads[r][g]) ELSE 0)
UploadCallsFor(r, id) == UploadCallsUpTo(r, id, NumGroups(r))

\* Call records: requests issued, the outcome ("none", "pending", "ok" or the message
\* thrown), and for a delete the upload calls already issued for its product in the
\* run, for a reorder its newImagesCount argument, the outcome of its gallery read and
\* the moves it sent.
NoDeleteCall == [issued |-> 0, outcome |-> "none", before |-> 0]
NoReorderCall ==
    [issued |-> 0, outcome |-> "none", newImagesCount |-> 0, read |-> "none", moves |-> <<>>]

\* -------------------------------------------------------------------- Init
\* The gallery of a product of the catalog as the lookup saw it.
MediaOf(id) == (CHOOSE p \in Catalog : p.id = id).mediaIds
InitRuns(inputs) ==
    /\ groupedFiles = [r \in Runs |-> inputs[r].groupedFiles]
    /\ productMap = [r \in Runs |-> inputs[r].productMap]
    /\ settings = [r \in Runs |-> inputs[r].settings]
    /\ pc = [r \in Runs |-> IF Len(inputs[r].groupedFiles) = 0 THEN "idle" ELSE "loop"]
    /\ gi = [r \in Runs |-> 1]
    /\ results = [r \in Runs |-> <<>>]
    /\ allResults = [r \in Runs |-> <<>>]
    /\ uploads = [r \in Runs |-> [g \in 1..Len(inputs[r].groupedFiles) |-> <<>>]]
    /\ queue = <<>>
    /\ activeCount = 0
    /\ deleteCall = [r \in Runs |-> [g \in 1..Len(inputs[r].groupedFiles) |-> NoDeleteCall]]
    /\ reorderCall = [r \in Runs |-> [g \in 1..Len(inputs[r].groupedFiles) |-> NoReorderCall]]
    /\ failures = 0
    /\ gallery = [id \in {p.id : p \in Catalog} |-> MediaOf(id)]

\* processUploadQueue is entered directly: no route action, no pure function under check.
NoRequest == [form |-> "none", parsedFiles |-> <<>>]
NoResponse == [success |-> FALSE, results |-> <<>>, summary |-> [total |-> 0]]
RouteIdle ==
    /\ request = [r \in Runs |-> NoRequest]
    /\ apc = [r \in Runs |-> "none"]
    /\ uniqueSKUs = [r \in Runs |-> <<>>]
    /\ lookups = [r \in Runs |-> <<>>]
    /\ response = [r \in Runs |-> NoResponse]
PureIdle ==
    /\ input = <<>>
    /\ output = <<>>

\* One request in the process; the other run slot stays idle.
Init ==
    /\ \E inp \in RunInputs(MaxFiles) :
           InitRuns([r \in Runs |-> IF r = "r1" THEN inp ELSE NoRun])
    /\ RouteIdle
    /\ PureIdle

\* Two requests in the same process, one SKU group each, PoolFiles files between them.
\* The first takes any settings, its SKU unresolved or resolved to the product with a
\* gallery; the second is a plain append onto the product without one.
PoolInit ==
    /\ RouteIdle
    /\ PureIdle
    /\ \E inp \in {o \in OneGroupInputs(PoolFiles \div 2) :
                   \A k \in DOMAIN o.productMap : o.productMap[k] = ProductWithMedia} :
        \E other \in {o \in OneGroupInputs(PoolFiles - (PoolFiles \div 2)) :
                         /\ o.settings = [dryRun |-> FALSE, uploadStrategy |-> "append"]
                         /\ o.productMap = [s \in {SkuOf(1)} |-> ProductNoMedia]} :
            InitRuns([r \in Runs |-> IF r = "r1" THEN inp ELSE other])

\* ---------------------------------------------------------- remote gallery
\* The media id productCreateMedia returns for the upload task t.
NewMediaId(t) == t[1] \o "-" \o ToString(t[2]) \o "-" \o ToString(t[3])
\* productDeleteMedia(productId, mediaIds)
RemoveMedia(gal, ids) ==
    SelectSeq(gal, LAMBDA m : \A k \in 1..Len(ids) : ids[k] # m)
\* media(first: 100) of the gallery read
FirstPage(gal) == SubSeq(gal, 1, IF Len(gal) < MediaPageSize THEN Len(gal) ELSE MediaPageSize)
\* The moves loop: the last newImagesCount ids read go to positions 0..newImagesCount-1.
ReorderMoves(allMediaIds, newImagesCount) ==
    [i \in 1..newImagesCount |->
        [id |-> allMediaIds[Len(allMediaIds) - newImagesCount + i], newPosition |-> i - 1]]
\* productReorderMedia: each move takes its medium out and puts it at newPosition.
ApplyMove(gal, mv) ==
    LET rest == SelectSeq(gal, LAMBDA m : m # mv.id)
    IN IF Len(rest) = Len(gal) THEN gal
       ELSE SubSeq(rest, 1, mv.newPosition) \o <<mv.id>> \o
            SubSeq(rest, mv.newPosition + 1, Len(rest))
RECURSIVE ApplyMoves(_, _)
ApplyMoves(gal, moves) ==
    IF Len(moves) = 0 THEN gal ELSE ApplyMoves(ApplyMove(gal, Head(moves)), Tail(moves))

\* One request whose SKUs resolve to a product with a short gallery or to the one
\* whose gallery fills the page the reorder step reads.
GalleryInit ==
    /\ RouteIdle
    /\ PureIdle
    /\ \E gf \in GroupedFilesInputs(MaxFiles) :
        \E pm \in ProductMapOver(gf, {ProductWithMedia, ProductFullPage}) :
            \E st \in SettingsInputs :
                InitRuns([r \in Runs |->
                            IF r = "r1"
                            THEN [groupedFiles |-> gf, productMap |-> pm, settings |-> st]
                            ELSE NoRun])

\* ----------------------------------------------------------------- limiter
\* pLimit(MAX_CONCURRENT): a task is started only while fewer than MAX_CONCURRENT run.
LimitHasSlotOffByOne(active) == active <= MAX_CONCURRENT
LimitHasSlot(active) == active < MAX_CONCURRENT

\* The start attempts that follow the enqueues: queued tasks are started in queue
\* order while a slot is free.
RECURSIVE LimitDrain(_, _, _)
LimitDrain(up, q, active) ==
    IF Len(q) > 0 /\ LimitHasSlot(active)
    THEN LimitDrain([up EXCEPT ![Head(q)[1]][Head(q)[2]][Head(q)[3]] = StartedTask(@)],
                    Tail(q), active + 1)
    ELSE [uploads |-> up, queue |-> q, activeCount |-> active]

\* limit(fn) for every sorted file of the group: the tasks are queued in submission order.
Dispatch(r, g) ==
    LET d == LimitDrain(
                 [uploads EXCEPT ![r][g] = [i \in 1..Len(SortedFiles(r, g)) |-> QueuedTask]],
                 queue \o [i \in 1..Len(SortedFiles(r, g)) |-> <<r, g, i>>],
                 activeCount)
    IN /\ uploads' = d.uploads
       /\ queue' = d.queue
       /\ activeCount' = d.activeCount

\* LimitNext releasing the slot without starting the task at the head of the queue.
LimitNextLeavesQueue(up) ==
    /\ uploads' = up
    /\ queue' = queue
    /\ activeCount' = activeCount - 1
\* next() of the limiter, run when a task settles: the slot goes to the head of the
\* queue, or is released when the queue is empty.  `up` is uploads with the settled task.
LimitNext(up) ==
    IF Len(queue) > 0
    THEN /\ uploads' = [up EXCEPT ![Head(queue)[1]][Head(queue)[2]][Head(queue)[3]] = StartedTask(@)]
         /\ queue' = Tail(queue)
         /\ activeCount' = activeCount
    ELSE /\ uploads' = up
         /\ queue' = queue
         /\ activeCount' = activeCount - 1

\* ------------------------------------------------------ processUploadQueue
SkippedResults(r, g) ==
    [i \in 1..Len(groupedFiles[r][g].files) |->
        SkippedResult(groupedFiles[r][g].files[i], groupedFiles[r][g].sku)]
DryRunResults(r, g) ==
    [i \in 1..Len(groupedFiles[r][g].files) |->
        DryRunResult(groupedFiles[r][g].files[i], ProductOf(r, g))]

\* if (settings.dryRun)
IsDryRunIgnored(r) == FALSE
IsDryRun(r) == settings[r].dryRun

\* A loop iteration for a SKU that is no key of productMap.
SkipGroup(r) ==
    /\ pc[r] = "loop"
    /\ gi[r] <= NumGroups(r)
    /\ ~HasProduct(r, gi[r])
    /\ allResults' = [allResults EXCEPT ![r] = @ \o SkippedResults(r, gi[r])]
    /\ gi' = [gi EXCEPT ![r] = @ + 1]
    /\ UNCHANGED <<pureVars, routeVars, inputVars, pc, results, uploads, queue, activeCount, deleteCall,
                   reorderCall, failures, gallery>>

\* A loop iteration for a resolved SKU under dryRun.
DryRunGroup(r) ==
    /\ pc[r] = "loop"
    /\ gi[r] <= NumGroups(r)
    /\ HasProduct(r, gi[r])
    /\ IsDryRun(r)
    /\ allResults' = [allResults EXCEPT ![r] = @ \o DryRunResults(r, gi[r])]
    /\ gi' = [gi EXCEPT ![r] = @ + 1]
    /\ UNCHANGED <<pureVars, routeVars, inputVars, pc, results, uploads, queue, activeCount, deleteCall,
                   reorderCall, failures, gallery>>

\* ----------------------------------------------------- processProductFiles
NeedsDeleteWrongStrategy(r, g) ==
    /\ settings[r].uploadStrategy = "prepend"
    /\ Len(ProductOf(r, g).mediaIds) > 0
NeedsDelete(r, g) ==
    /\ settings[r].uploadStrategy = "replace"
    /\ Len(ProductOf(r, g).mediaIds) > 0

\* EnterGroup with the delete request issued but not awaited.
EnterGroupDeleteNotAwaited(r) ==
    /\ pc[r] = "loop"
    /\ gi[r] <= NumGroups(r)
    /\ HasProduct(r, gi[r])
    /\ ~IsDryRun(r)
    /\ results' = [results EXCEPT ![r] = <<>>]
    /\ deleteCall' = IF NeedsDelete(r, gi[r])
                     THEN [deleteCall EXCEPT ![r][gi[r]] =
                              [issued |-> @.issued + 1, outcome |-> "pending",
                               before |-> UploadCallsFor(r, ProductOf(r, gi[r]).id)]]
                     ELSE deleteCall
    /\ Dispatch(r, gi[r])
    /\ pc' = [pc EXCEPT ![r] = "await"]
    /\ UNCHANGED <<pureVars, routeVars, inputVars, gi, allResults, reorderCall, failures, gallery>>

\* The call of processProductFiles up to its first await: the delete request when the
\* strategy asks for one, otherwise the submission of the uploads.
EnterGroup(r) ==
    /\ pc[r] = "loop"
    /\ gi[r] <= NumGroups(r)
    /\ HasProduct(r, gi[r])
    /\ ~IsDryRun(r)
    /\ results' = [results EXCEPT ![r] = <<>>]
    /\ IF NeedsDelete(r, gi[r])
       THEN /\ deleteCall' = [deleteCall EXCEPT ![r][gi[r]] =
                                 [issued |-> @.issued + 1, outcome |-> "pending",
                                  before |-> UploadCallsFor(r, ProductOf(r, gi[r]).id)]]
            /\ pc' = [pc EXCEPT ![r] = "delete"]
            /\ UNCHANGED <<uploads, queue, activeCount>>
       ELSE /\ Dispatch(r, gi[r])
            /\ pc' = [pc EXCEPT ![r] = "await"]
            /\ UNCHANGED deleteCall
    /\ UNCHANGED <<pureVars, routeVars, inputVars, gi, allResults, reorderCall, failures, gallery>>

\* DeleteReturn with the delete emptying the gallery as it stands at the call
\* instead of removing the ids the lookup gave.
DeleteReturnOfCurrentGallery(r) ==
    /\ pc[r] = "delete"
    /\ \E outcome \in {"ok"} \cup DeleteProductMediaErrors :
        /\ outcome # "ok" => failures < MaxFailures
        /\ failures' = IF outcome = "ok" THEN failures ELSE failures + 1
        /\ deleteCall' = [deleteCall EXCEPT ![r][gi[r]].outcome = outcome]
        /\ gallery' = IF outcome = "ok"
                      THEN [gallery EXCEPT ![ProductOf(r, gi[r]).id] = RemoveMedia(@, @)]
                      ELSE gallery
    /\ Dispatch(r, gi[r])
    /\ pc' = [pc EXCEPT ![r] = "await"]
    /\ UNCHANGED <<pureVars, routeVars, inputVars, gi, results, allResults, reorderCall>>
\* deleteProductMedia returns or throws; the catch logs and the uploads are submitted.
DeleteReturn(r) ==
    /\ pc[r] = "delete"
    /\ \E outcome \in {"ok"} \cup DeleteProductMediaErrors :
        /\ outcome # "ok" => failures < MaxFailures
        /\ failures' = IF outcome = "ok" THEN failures ELSE failures + 1
        /\ deleteCall' = [deleteCall EXCEPT ![r][gi[r]].outcome = outcome]
        /\ gallery' = IF outcome = "ok"
                      THEN [gallery EXCEPT ![ProductOf(r, gi[r]).id] =
                               RemoveMedia(@, ProductOf(r, gi[r]).mediaIds)]
                      ELSE gallery
    /\ Dispatch(r, gi[r])
    /\ pc' = [pc EXCEPT ![r] = "await"]
    /\ UNCHANGED <<pureVars, routeVars, inputVars, gi, results, allResults, reorderCall>>

\* -------------------------------------------------------- processOneUpload
StateAfter == <<"StagedTargetReady", "BytesUploaded", "MediaRegistered">>
TaskFile(t) == SortedFiles(t[1], t[2])[t[3]]
TaskProduct(t) == ProductOf(t[1], t[2])

\* AfterStepOk with the byte upload left out: registration follows the staged target.
AfterStepOkUploadSkipped(t, k) ==
    IF k < 3
    THEN [TaskOf(t) EXCEPT !.state = StateAfter[k], !.issued = Append(@, UploadSteps[3]),
                           !.returned = Append(@, "ok")]
    ELSE [TaskOf(t) EXCEPT !.state = StateAfter[k], !.returned = Append(@, "ok"),
                           !.result = SuccessResult(TaskFile(t), TaskProduct(t))]
\* Step k resolved: the next request is issued, or after the third the task returns.
AfterStepOk(t, k) ==
    IF k < 3
    THEN [TaskOf(t) EXCEPT !.state = StateAfter[k], !.issued = Append(@, UploadSteps[k + 1]),
                           !.returned = Append(@, "ok")]
    ELSE [TaskOf(t) EXCEPT !.state = StateAfter[k], !.returned = Append(@, "ok"),
                           !.result = SuccessResult(TaskFile(t), TaskProduct(t))]
\* AfterStepError with the catch returning the success object.
AfterStepErrorReportedSuccess(t, message) ==
    [TaskOf(t) EXCEPT !.state = "Error", !.returned = Append(@, message),
                      !.result = SuccessResult(TaskFile(t), TaskProduct(t))]
\* Step k threw: the catch turns the message into the task's result.
AfterStepError(t, message) ==
    [TaskOf(t) EXCEPT !.state = "Error", !.returned = Append(@, message),
                      !.result = ErrorResult(TaskFile(t), TaskProduct(t), message)]

StepReturn(t, k, outcome) ==
    /\ outcome # "ok" => failures < MaxFailures
    /\ failures' = IF outcome = "ok" THEN failures ELSE failures + 1
    /\ gallery' = IF outcome = "ok" /\ k = 3
                  THEN [gallery EXCEPT ![TaskProduct(t).id] = Append(@, NewMediaId(t))]
                  ELSE gallery
    /\ IF outcome = "ok" /\ k < 3
       THEN /\ uploads' = [uploads EXCEPT ![t[1]][t[2]][t[3]] = AfterStepOk(t, k)]
            /\ UNCHANGED <<queue, activeCount>>
       ELSE LimitNext([uploads EXCEPT ![t[1]][t[2]][t[3]] =
                          IF outcome = "ok" THEN AfterStepOk(t, k)
                          ELSE AfterStepError(t, outcome)])
    /\ UNCHANGED <<pureVars, routeVars, inputVars, pc, gi, results, allResults, deleteCall, reorderCall>>

CreateStagedUploadReturn(t) ==
    /\ TaskOf(t).state = "Requested"
    /\ \E outcome \in {"ok"} \cup CreateStagedUploadErrors : StepReturn(t, 1, outcome)
UploadToStagedTargetReturn(t) ==
    /\ TaskOf(t).state = "StagedTargetReady"
    /\ \E outcome \in {"ok"} \cup UploadToStagedTargetErrors : StepReturn(t, 2, outcome)
CreateProductMediaReturn(t) ==
    /\ TaskOf(t).state = "BytesUploaded"
    /\ \E outcome \in {"ok"} \cup CreateProductMediaErrors : StepReturn(t, 3, outcome)

\* ------------------------------------- processProductFiles, after the join
\* Promise.all(uploadPromises) resolves when every task of the group has settled.
PromiseAnySettled(r, g) == \E i \in 1..Len(uploads[r][g]) : Settled(uploads[r][g][i])
PromiseAllSettled(r, g) == \A i \in 1..Len(uploads[r][g]) : Settled(uploads[r][g][i])
\* UploadResults keeping the results of the successful uploads only.
UploadResultsSuccessOnly(r, g) ==
    SelectSeq([i \in 1..Len(uploads[r][g]) |-> uploads[r][g][i].result],
              LAMBDA res : res.status = "success")
UploadResults(r, g) == [i \in 1..Len(uploads[r][g]) |-> uploads[r][g][i].result]
SuccessfulUploads(rs) == Cardinality({i \in 1..Len(rs) : rs[i].status = "success"})
NeedsReorderIgnoresMedia(r, g, rs) ==
    /\ settings[r].uploadStrategy = "prepend"
    /\ SuccessfulUploads(rs) > 0
NeedsReorder(r, g, rs) ==
    /\ settings[r].uploadStrategy = "prepend"
    /\ Len(ProductOf(r, g).mediaIds) > 0
    /\ SuccessfulUploads(rs) > 0

\* AwaitUploads with the reorder call issued but not awaited: processProductFiles
\* returns its results and the loop goes on to the next group.
AwaitUploadsReorderNotAwaited(r) ==
    /\ pc[r] = "await"
    /\ PromiseAllSettled(r, gi[r])
    /\ reorderCall' = IF NeedsReorder(r, gi[r], UploadResults(r, gi[r]))
                      THEN [reorderCall EXCEPT ![r][gi[r]] =
                               [issued |-> @.issued + 1, outcome |-> "pending",
                                newImagesCount |->
                                    SuccessfulUploads(UploadResults(r, gi[r])),
                                read |-> "pending", moves |-> <<>>]]
                      ELSE reorderCall
    /\ allResults' = [allResults EXCEPT ![r] = @ \o results[r] \o UploadResults(r, gi[r])]
    /\ results' = [results EXCEPT ![r] = <<>>]
    /\ gi' = [gi EXCEPT ![r] = @ + 1]
    /\ pc' = [pc EXCEPT ![r] = "loop"]
    /\ UNCHANGED <<pureVars, routeVars, inputVars, uploads, queue, activeCount, deleteCall, failures, gallery>>
\* The continuation of await Promise.all: the results are pushed, then either
\* reorderProductMedia is called, which issues its gallery read, or processProductFiles
\* returns to the loop.
AwaitUploads(r) ==
    /\ pc[r] = "await"
    /\ PromiseAllSettled(r, gi[r])
    /\ IF NeedsReorder(r, gi[r], UploadResults(r, gi[r]))
       THEN /\ results' = [results EXCEPT ![r] = @ \o UploadResults(r, gi[r])]
            /\ reorderCall' = [reorderCall EXCEPT ![r][gi[r]] =
                                  [issued |-> @.issued + 1, outcome |-> "pending",
                                   newImagesCount |->
                                       SuccessfulUploads(UploadResults(r, gi[r])),
                                   read |-> "pending", moves |-> <<>>]]
            /\ pc' = [pc EXCEPT ![r] = "reorder"]
            /\ UNCHANGED <<allResults, gi>>
       ELSE /\ allResults' = [allResults EXCEPT ![r] = @ \o results[r] \o UploadResults(r, gi[r])]
            /\ results' = [results EXCEPT ![r] = <<>>]
            /\ gi' = [gi EXCEPT ![r] = @ + 1]
            /\ pc' = [pc EXCEPT ![r] = "loop"]
            /\ UNCHANGED reorderCall
    /\ UNCHANGED <<pureVars, routeVars, inputVars, uploads, queue, activeCount, deleteCall, failures, gallery>>

\* ResultsAfterReorder with a reorder failure turned into per-file errors.
ResultsAfterReorderFailsFiles(rs, outcome) ==
    IF outcome = "ok" THEN rs
    ELSE [i \in 1..Len(rs) |-> [rs[i] EXCEPT !.status = "error", !.errorDetails = outcome]]
\* What processProductFiles returns after the reorder call resolved or threw.
ResultsAfterReorder(rs, outcome) == rs

\* The response of the gallery read is used unchecked:
\* data.data?.product?.media?.edges || []
AllMediaIds(read, id) == IF read = "ok" THEN FirstPage(gallery[id]) ELSE <<>>

\* reorderProductMedia has returned or thrown; the catch logs; processProductFiles
\* returns the group's results to the loop.
ReorderDone(r, outcome) ==
    /\ allResults' = [allResults EXCEPT ![r] = @ \o ResultsAfterReorder(results[r], outcome)]
    /\ results' = [results EXCEPT ![r] = <<>>]
    /\ gi' = [gi EXCEPT ![r] = @ + 1]
    /\ pc' = [pc EXCEPT ![r] = "loop"]

\* The gallery read returns: with nothing to move reorderProductMedia returns,
\* otherwise it sends its moves.
ReorderReadReturn(r) ==
    /\ pc[r] = "reorder"
    /\ \E read \in GalleryReadOutcomes :
        LET id == ProductOf(r, gi[r]).id
            n == reorderCall[r][gi[r]].newImagesCount
            all == AllMediaIds(read, id)
        IN /\ read # "ok" => failures < MaxFailures
           /\ failures' = IF read = "ok" THEN failures ELSE failures + 1
           /\ IF Len(all) <= n
              THEN /\ reorderCall' = [reorderCall EXCEPT ![r][gi[r]].read = read,
                                                         ![r][gi[r]].outcome = "ok"]
                   /\ ReorderDone(r, "ok")
              ELSE /\ reorderCall' = [reorderCall EXCEPT ![r][gi[r]].read = read,
                                                         ![r][gi[r]].moves = ReorderMoves(all, n)]
                   /\ pc' = [pc EXCEPT ![r] = "moves"]
                   /\ UNCHANGED <<gi, results, allResults>>
    /\ UNCHANGED <<pureVars, routeVars, inputVars, uploads, queue, activeCount, deleteCall, gallery>>

\* productReorderMedia returns or fails; reorderProductMedia returns or throws.
ReorderReturn(r) ==
    /\ pc[r] = "moves"
    /\ \E outcome \in {"ok"} \cup ReorderProductMediaErrors :
        /\ outcome # "ok" => failures < MaxFailures
        /\ failures' = IF outcome = "ok" THEN failures ELSE failures + 1
        /\ reorderCall' = [reorderCall EXCEPT ![r][gi[r]].outcome = outcome]
        /\ gallery' = IF outcome = "ok"
                      THEN [gallery EXCEPT ![ProductOf(r, gi[r]).id] =
                               ApplyMoves(@, reorderCall[r][gi[r]].moves)]
                      ELSE gallery
        /\ ReorderDone(r, outcome)
    /\ UNCHANGED <<pureVars, routeVars, inputVars, uploads, queue, activeCount, deleteCall>>

\* The loop is exhausted: processUploadQueue returns allResults.
ReturnRun(r) ==
    /\ pc[r] = "loop"
    /\ gi[r] > NumGroups(r)
    /\ pc' = [pc EXCEPT ![r] = "done"]
    /\ UNCHANGED <<pureVars, routeVars, inputVars, gi, results, allResults, uploads, queue, activeCount,
                   deleteCall, reorderCall, failures, gallery>>

\* ------------------------------------------------------------ route action
\* The form's files: SKUs (one of them an integer-like key), sort orders, and the
\* reasons the client marked a file invalid with.
RouteSkus == {"A", "7"}
SortOrders == {1, 2}
InvalidReasons == {"File is empty", "No hyphen found - cannot determine sort order"}
FormOutcomes == {"ok", "Settings not provided", "Files data not provided"}
FileName(i) == "file" \o ToString(i)
ValidFile(i, sku, n) ==
    [originalFilename |-> FileName(i), sku |-> sku, sortOrder |-> n, isValid |-> TRUE,
     error |-> Undefined]
InvalidFile(i, reason) ==
    [originalFilename |-> FileName(i), sku |-> "", sortOrder |-> 0, isValid |-> FALSE,
     error |-> reason]
FileKinds(i) ==
    {ValidFile(i, sku, n) : sku \in RouteSkus, n \in SortOrders} \cup
    {InvalidFile(i, reason) : reason \in InvalidReasons}
ParsedFilesInputs(maxF) ==
    UNION {{fs \in [1..n -> UNION {FileKinds(i) : i \in 1..n}] :
               \A i \in 1..n : fs[i] \in FileKinds(i)} : n \in 0..maxF}
RequestInputs(maxF) ==
    {[form |-> "ok", parsedFiles |-> fs] : fs \in ParsedFilesInputs(maxF)} \cup
    {[form |-> f, parsedFiles |-> <<>>] : f \in FormOutcomes \ {"ok"}}

\* a || b
OrElse(a, b) == IF a \in {Undefined, ""} THEN b ELSE a
\* parsedFiles.filter((f) => f.isValid)
ValidFiles(files) == SelectSeq(files, LAMBDA f : f.isValid)
\* InvalidResult with the file's own reason dropped for the fallback text.
InvalidResultGenericReason(f) ==
    [filename |-> f.originalFilename, detectedSku |-> OrElse(f.sku, ""),
     productFound |-> FALSE, productTitle |-> Undefined, productId |-> Undefined,
     status |-> "error", errorDetails |-> "Invalid file"]
InvalidResult(f) ==
    [filename |-> f.originalFilename, detectedSku |-> OrElse(f.sku, ""),
     productFound |-> FALSE, productTitle |-> Undefined, productId |-> Undefined,
     status |-> "error", errorDetails |-> OrElse(f.error, "Invalid file")]
InvalidResults(files) ==
    LET inv == SelectSeq(files, LAMBDA f : ~f.isValid)
    IN [i \in 1..Len(inv) |-> InvalidResult(inv[i])]

\* The keys of an object in iteration order: integer-like keys ascending, then the
\* other keys in insertion order.
ArrayIndexValue == [k \in {"7", "10"} |-> IF k = "7" THEN 7 ELSE 10]
IsArrayIndex(k) == k \in DOMAIN ArrayIndexValue
RECURSIVE SortIndexKeys(_)
SortIndexKeys(ks) ==
    IF ks = {} THEN <<>>
    ELSE LET least == CHOOSE k \in ks : \A o \in ks : ArrayIndexValue[k] <= ArrayIndexValue[o]
         IN <<least>> \o SortIndexKeys(ks \ {least})
ObjectKeys(inserted) ==
    SortIndexKeys({inserted[j] : j \in {i \in 1..Len(inserted) : IsArrayIndex(inserted[i])}})
        \o SelectSeq(inserted, LAMBDA k : ~IsArrayIndex(k))
\* The distinct SKUs of the valid files in order of first appearance.
RECURSIVE FirstAppearances(_)
FirstAppearances(files) ==
    IF Len(files) = 0 THEN <<>>
    ELSE LET before == FirstAppearances(SubSeq(files, 1, Len(files) - 1))
             f == files[Len(files)]
         IN IF ~f.isValid \/ (\E j \in 1..Len(before) : before[j] = f.sku) THEN before
            ELSE Append(before, f.sku)
\* groupFilesBySku as the sequence Object.entries gives of its result.
GroupFilesBySku(files) ==
    LET keys == ObjectKeys(FirstAppearances(files))
    IN [g \in 1..Len(keys) |->
           [sku |-> keys[g],
            files |-> SortBySortOrder(SelectSeq(files, LAMBDA f : f.isValid /\ f.sku = keys[g]))]]
\* getUniqueSKUs: a Set's values in insertion order.
\* getUniqueSKUs without the Set: the SKU of every valid file, repeats included.
GetUniqueSKUsWithRepeats(files) ==
    LET named == SelectSeq(files, LAMBDA f : f.isValid /\ f.sku # "")
    IN [i \in 1..Len(named) |-> named[i].sku]
GetUniqueSKUs(files) == FirstAppearances(SelectSeq(files, LAMBDA f : f.sku # ""))

CountStatus(rs, status) == Cardinality({i \in 1..Len(rs) : rs[i].status = status})
\* generateSummary counting the skipped results among the failed ones too.
GenerateSummarySkippedAsFailed(rs) ==
    [total |-> Len(rs), successful |-> CountStatus(rs, "success"),
     failed |-> CountStatus(rs, "error") + CountStatus(rs, "skipped"),
     skipped |-> CountStatus(rs, "skipped"), dryRun |-> CountStatus(rs, "dry-run")]
GenerateSummary(rs) ==
    [total |-> Len(rs), successful |-> CountStatus(rs, "success"),
     failed |-> CountStatus(rs, "error"), skipped |-> CountStatus(rs, "skipped"),
     dryRun |-> CountStatus(rs, "dry-run")]
\* if (validFiles.length === 0)
NoValidFilesResponse(invalidResults) ==
    [success |-> FALSE, results |-> invalidResults,
     summary |-> [total |-> Len(invalidResults), successful |-> 0,
                  failed |-> Len(invalidResults), skipped |-> 0]]
FinalResponse(allRes) ==
    [success |-> GenerateSummary(allRes).failed = 0, results |-> allRes,
     summary |-> GenerateSummary(allRes)]
\* The catch of the action.
CatchResponse(message) ==
    [success |-> FALSE,
     results |-> <<[filename |-> "Error", detectedSku |-> "", productFound |-> FALSE,
                    productTitle |-> Undefined, productId |-> Undefined,
                    status |-> "error", errorDetails |-> message]>>,
     summary |-> [total |-> 1, successful |-> 0, failed |-> 1, skipped |-> 0]]

\* One request to the route; settings[r] holds the settings of its form.
ActionInit ==
    /\ \E st \in SettingsInputs :
           InitRuns([r \in Runs |->
                       IF r = "r1"
                       THEN [groupedFiles |-> <<>>, productMap |-> <<>>, settings |-> st]
                       ELSE NoRun])
    /\ \E req \in RequestInputs(MaxFiles) :
           request = [r \in Runs |-> IF r = "r1" THEN req ELSE NoRequest]
    /\ apc = [r \in Runs |-> IF r = "r1" THEN "start" ELSE "none"]
    /\ uniqueSKUs = [r \in Runs |-> <<>>]
    /\ lookups = [r \in Runs |-> <<>>]
    /\ response = [r \in Runs |-> NoResponse]
    /\ PureIdle

\* The action from the parsed form to its first lookup request, or to its return
\* when the form is incomplete or holds no valid file.
ActionStart(r) ==
    /\ apc[r] = "start"
    /\ LET files == request[r].parsedFiles
           grouped == GroupFilesBySku(ValidFiles(files))
       IN IF request[r].form # "ok"
          THEN /\ response' = [response EXCEPT ![r] = CatchResponse(request[r].form)]
               /\ apc' = [apc EXCEPT ![r] = "returned"]
               /\ UNCHANGED <<groupedFiles, uniqueSKUs, uploads, deleteCall, reorderCall>>
          ELSE IF Len(ValidFiles(files)) = 0
          THEN /\ response' = [response EXCEPT ![r] =
                                   NoValidFilesResponse(InvalidResults(files))]
               /\ apc' = [apc EXCEPT ![r] = "returned"]
               /\ UNCHANGED <<groupedFiles, uniqueSKUs, uploads, deleteCall, reorderCall>>
          ELSE /\ groupedFiles' = [groupedFiles EXCEPT ![r] = grouped]
               /\ uniqueSKUs' = [uniqueSKUs EXCEPT ![r] = GetUniqueSKUs(ValidFiles(files))]
               /\ uploads' = [uploads EXCEPT ![r] = [g \in 1..Len(grouped) |-> <<>>]]
               /\ deleteCall' = [deleteCall EXCEPT ![r] =
                                     [g \in 1..Len(grouped) |-> NoDeleteCall]]
               /\ reorderCall' = [reorderCall EXCEPT ![r] =
                                      [g \in 1..Len(grouped) |-> NoReorderCall]]
               /\ apc' = [apc EXCEPT ![r] = "lookup"]
               /\ UNCHANGED response
    /\ UNCHANGED <<pureVars, productMap, settings, pc, gi, results, allResults, queue,
                   activeCount, failures, gallery, request, lookups>>

\* What queryProductBySKU gives for a SKU: a product of the catalog, null, or a throw.
LookupOutcomes == {"product", "null", "Failed to query product"}
\* productMap.set(sku, product)
MapSet(map, sku, product) ==
    [k \in (DOMAIN map) \cup {sku} |-> IF k = sku THEN product ELSE map[k]]

\* The for-loop of queryProductsBySKUs with the try around it: a throw ends the loop.
LookupsDoneOnThrow(r, outcome) ==
    outcome = "Failed to query product" \/ Len(lookups[r]) + 1 = Len(uniqueSKUs[r])
\* The for-loop with the try inside it: it ends after the last SKU only.
LookupsDone(r, outcome) == Len(lookups[r]) + 1 = Len(uniqueSKUs[r])

\* A queryProductBySKU call of queryProductsBySKUs returns or throws: the next lookup
\* is requested, or after the last one processUploadQueue is entered.
LookupReturn(r) ==
    /\ apc[r] = "lookup"
    /\ LET sku == uniqueSKUs[r][Len(lookups[r]) + 1]
       IN \E outcome \in LookupOutcomes : \E product \in Products :
              /\ outcome = "Failed to query product" => failures < MaxFailures
              /\ failures' = IF outcome = "Failed to query product"
                             THEN failures + 1 ELSE failures
              /\ outcome # "product" => product = ProductWithMedia
              /\ productMap' = IF outcome = "product"
                               THEN [productMap EXCEPT ![r] = MapSet(@, sku, product)]
                               ELSE productMap
              /\ lookups' = [lookups EXCEPT ![r] = Append(@, [sku |-> sku, outcome |-> outcome])]
              /\ IF LookupsDone(r, outcome)
                 THEN /\ apc' = [apc EXCEPT ![r] = "queue"]
                      /\ pc' = [pc EXCEPT ![r] = "loop"]
                 ELSE UNCHANGED <<apc, pc>>
    /\ UNCHANGED <<pureVars, groupedFiles, settings, gi, results, allResults, uploads, queue,
                   activeCount, deleteCall, reorderCall, gallery, request, uniqueSKUs,
                   response>>

\* [...uploadResults, ...invalidResults]
AllResultsUploadsFirst(invalidResults, uploadResults) == uploadResults \o invalidResults
\* [...invalidResults, ...uploadResults]
AllResults(invalidResults, uploadResults) == invalidResults \o uploadResults

\* processUploadQueue has returned: the response is built from all results.
ActionReturn(r) ==
    /\ apc[r] = "queue"
    /\ pc[r] = "done"
    /\ response' = [response EXCEPT ![r] =
                        FinalResponse(AllResults(InvalidResults(request[r].parsedFiles),
                                                 allResults[r]))]
    /\ apc' = [apc EXCEPT ![r] = "returned"]
    /\ UNCHANGED <<pureVars, inputVars, pc, gi, results, allResults, uploads, queue,
                   activeCount, deleteCall, reorderCall, failures, gallery, request,
                   uniqueSKUs, lookups>>

\* ------------------------------------------------------------ parseFilename
\* File names are sequences of characters.  The alphabet has a letter, the separator,
\* two digits, a blank and the dot.
Chars == {"a", "-", "0", "1", " ", "."}
FilenameInputs(maxLen) == UNION {[1..n -> Chars] : n \in 0..maxLen}
WhiteSpace == {" "}
DigitValue == [c \in {"0", "1"} |-> IF c = "0" THEN 0 ELSE 1]
UpperCaseOf == [c \in Chars |-> IF c = "a" THEN "A" ELSE c]

\* String.prototype methods, with the 0-based indexes of the source.
\* s.indexOf(c): the first occurrence instead of the last.
IndexOf(s, c) ==
    LET at == {i \in 1..Len(s) : s[i] = c}
    IN IF at = {} THEN -1 ELSE (CHOOSE i \in at : \A j \in at : i <= j) - 1
LastIndexOf(s, c) ==
    LET at == {i \in 1..Len(s) : s[i] = c}
    IN IF at = {} THEN -1 ELSE (CHOOSE i \in at : \A j \in at : j <= i) - 1
Substring(s, start, end) == SubSeq(s, start + 1, end)
SubstringFrom(s, start) == SubSeq(s, start + 1, Len(s))
Trim(s) ==
    LET kept == {i \in 1..Len(s) : s[i] \notin WhiteSpace}
    IN IF kept = {} THEN <<>>
       ELSE SubSeq(s, CHOOSE i \in kept : \A j \in kept : i <= j,
                      CHOOSE i \in kept : \A j \in kept : j <= i)
ToUpperCase(s) == [i \in 1..Len(s) |-> UpperCaseOf[s[i]]]
\* filename.replace(/\.[^/.]+$/, ""): a dot followed up to the end by one or more
\* characters that are neither "/" nor "." is cut off with what follows it.
StripExtension(filename) ==
    LET dots == {i \in 1..Len(filename) :
                    /\ filename[i] = "."
                    /\ i < Len(filename)
                    /\ \A j \in (i + 1)..Len(filename) : filename[j] \notin {"/", "."}}
    IN IF dots = {} THEN filename
       ELSE SubSeq(filename, 1, (CHOOSE i \in dots : \A j \in dots : i <= j) - 1)
\* parseInt(str, 10): leading white space is skipped, a sign is read, then the longest
\* run of decimal digits; what follows the digits is ignored; no digit gives NaN.
NaN == [nan |-> TRUE, value |-> 0]
RECURSIVE Decimal(_)
Decimal(ds) ==
    IF Len(ds) = 0 THEN 0
    ELSE 10 * Decimal(SubSeq(ds, 1, Len(ds) - 1)) + DigitValue[ds[Len(ds)]]
DigitPrefixLen(s) ==
    Cardinality({i \in 1..Len(s) : \A j \in 1..i : s[j] \in DOMAIN DigitValue})
ParseInt(str) ==
    LET kept == {i \in 1..Len(str) : str[i] \notin WhiteSpace}
        s == IF kept = {} THEN <<>>
             ELSE SubSeq(str, CHOOSE i \in kept : \A j \in kept : i <= j, Len(str))
        signed == Len(s) > 0 /\ s[1] \in {"+", "-"}
        body == IF signed THEN Tail(s) ELSE s
        n == DigitPrefixLen(body)
        magnitude == Decimal(SubSeq(body, 1, n))
    IN IF n = 0 THEN NaN
       ELSE [nan |-> FALSE, value |-> IF signed /\ s[1] = "-" THEN -magnitude ELSE magnitude]

Throw(message) == [threw |-> message, sku |-> <<>>, sortOrder |-> 0]
ParseFilename(filename) ==
    LET nameWithoutExt == StripExtension(filename)
        lastHyphenIndex == LastIndexOf(nameWithoutExt, "-")
        sku == Trim(Substring(nameWithoutExt, 0, lastHyphenIndex))
        sortStr == Trim(SubstringFrom(nameWithoutExt, lastHyphenIndex + 1))
        sortOrder == ParseInt(sortStr)
    IN IF lastHyphenIndex = -1 THEN Throw("No hyphen found - cannot determine sort order")
       ELSE IF lastHyphenIndex = 0 THEN Throw("SKU cannot be empty")
       ELSE IF sku = <<>> THEN Throw("SKU cannot be empty")
       ELSE IF sortOrder.nan THEN Throw("Invalid sort number")
       ELSE IF sortOrder.value < 0 THEN Throw("Sort number cannot be negative")
       ELSE [threw |-> "none", sku |-> ToUpperCase(sku), sortOrder |-> sortOrder.value]

\* One call of parseFilename on any file name; no request is running.
ParseInit ==
    /\ InitRuns([r \in Runs |-> NoRun])
    /\ RouteIdle
    /\ input \in FilenameInputs(MaxNameLen)
    /\ output = <<>>
ParseFilenameCall ==
    /\ output = <<>>
    /\ output' = <<ParseFilename(input)>>
    /\ UNCHANGED <<input, routeVars, inputVars, pc, gi, results, allResults, uploads, queue,
                   activeCount, deleteCall, reorderCall, failures, gallery>>

\* ------------------------------------------------------------- validateFile
ALLOWED_TYPES == {"image/jpeg", "image/png", "image/gif", "image/webp", "image/jpg"}
MAX_SIZE == 20 * 1024 * 1024
\* Declared mime types (the empty string when the browser knows none) and sizes in
\* bytes around the two limits.
MimeTypes == ALLOWED_TYPES \cup {"image/bmp", "application/zip", ""}
FileSizes == {0, 1, 2, MAX_SIZE - 1, MAX_SIZE, MAX_SIZE + 1, 2 * MAX_SIZE}
FileInputs == [type : MimeTypes, size : FileSizes]
\* (x / 1024 / 1024).toFixed(2): hundredths of a MiB, rounded to nearest.
ToFixed2MiB(size) ==
    LET MiB == 1024 * 1024
        h == 100 * (size \div MiB) + (200 * (size % MiB) + MiB) \div (2 * MiB)
    IN ToString(h \div 100) \o "." \o ToString((h % 100) \div 10) \o ToString(h % 10)
InvalidTypeError(type) ==
    "Invalid file type: " \o (IF type = "" THEN "unknown" ELSE type)
        \o ". Allowed: JPEG, PNG, GIF, WebP"
TooLargeError(size) == "File exceeds 20MB limit (" \o ToFixed2MiB(size) \o "MB)"
EmptyError == "File is empty"
TooLargeAtBound(size) == size >= MAX_SIZE
TooLarge(size) == size > MAX_SIZE
ValidateFile(file) ==
    IF file.type \notin ALLOWED_TYPES THEN [valid |-> FALSE, error |-> InvalidTypeError(file.type)]
    ELSE IF TooLarge(file.size) THEN [valid |-> FALSE, error |-> TooLargeError(file.size)]
    ELSE IF file.size = 0 THEN [valid |-> FALSE, error |-> EmptyError]
    ELSE [valid |-> TRUE, error |-> ""]

\* One call of validateFile on any file; no request is running.
ValidateInit ==
    /\ InitRuns([r \in Runs |-> NoRun])
    /\ RouteIdle
    /\ input \in FileInputs
    /\ output = <<>>
ValidateFileCall ==
    /\ output = <<>>
    /\ output' = <<ValidateFile(input)>>
    /\ UNCHANGED <<input, routeVars, inputVars, pc, gi, results, allResults, uploads, queue,
                   activeCount, deleteCall, reorderCall, failures, gallery>>

\* ---------------------------------------------------------- groupFilesBySku
\* One call of groupFilesBySku on any list of parsed files; no request is running.
GroupInit ==
    /\ InitRuns([r \in Runs |-> NoRun])
    /\ RouteIdle
    /\ input \in ParsedFilesInputs(MaxFiles)
    /\ output = <<>>
GroupFilesBySkuCall ==
    /\ output = <<>>
    /\ output' = <<GroupFilesBySku(input)>>
    /\ UNCHANGED <<input, routeVars, inputVars, pc, gi, results, allResults, uploads, queue,
                   activeCount, deleteCall, reorderCall, failures, gallery>>

\* The lists of a grouped result one after the other, in the order of its entries.
RECURSIVE Flatten(_)
Flatten(grouped) ==
    IF Len(grouped) = 0 THEN <<>> ELSE Head(grouped).files \o Flatten(Tail(grouped))
\* groupFilesBySku applied again, to the files of its own result.
RegroupCall ==
    /\ Len(output) = 1
    /\ output' = Append(output, GroupFilesBySku(Flatten(output[1])))
    /\ UNCHANGED <<input, routeVars, inputVars, pc, gi, results, allResults, uploads, queue,
                   activeCount, deleteCall, reorderCall, failures, gallery>>

\* ------------------------------------------------------ analyzeImagePattern
\* Inputs: the lists of parsed files above, and lists of up to MaxSkus SKUs given
\* block by block, each SKU with one of a few sequences of sort orders.
SkuOrders == {<<"B", "A", "10", "7", "C">>, <<"7", "C", "10", "A", "B">>}
MaxSkus == Len(CHOOSE o \in SkuOrders : TRUE)
OrderSeqs == {<<1>>, <<3>>, <<2, 1>>, <<1, 3>>, <<2, 2>>, <<3, 1, 2>>, <<1, 4, 2>>}
RECURSIVE Blocks(_, _, _)
Blocks(order, choice, k) ==
    IF k = 0 THEN <<>>
    ELSE Blocks(order, choice, k - 1) \o
         [j \in 1..Len(choice[k]) |-> [sku |-> order[k], sortOrder |-> choice[k][j]]]
BlockFiles(order, choice, k) ==
    LET bs == Blocks(order, choice, k)
    IN [i \in 1..Len(bs) |-> ValidFile(i, bs[i].sku, bs[i].sortOrder)]

\* a.sku.localeCompare(b.sku) < 0 on the SKUs in use: digits sort before letters and
\* strings are compared character by character, so "10" comes before "7".
LocaleRank == [k \in {"10", "7", "A", "B", "C"} |->
                 CASE k = "10" -> 1 [] k = "7" -> 2 [] k = "A" -> 3 [] k = "B" -> 4 [] k = "C" -> 5]
\* numbers.sort((a, b) => a - b)
SortNumbers(ns) ==
    [k \in 1..Len(ns) |->
        ns[CHOOSE i \in 1..Len(ns) :
               Cardinality({j \in 1..Len(ns) : ns[j] < ns[i] \/ (ns[j] = ns[i] /\ j < i)}) = k - 1]]
\* The numbers of a finite set in ascending order.
RECURSIVE Ascending(_)
Ascending(S) ==
    IF S = {} THEN <<>>
    ELSE LET least == CHOOSE n \in S : \A o \in S : n <= o
         IN <<least>> \o Ascending(S \ {least})
MinOf(ns) == CHOOSE n \in {ns[i] : i \in 1..Len(ns)} : \A i \in 1..Len(ns) : n <= ns[i]
MaxOf(ns) == CHOOSE n \in {ns[i] : i \in 1..Len(ns)} : \A i \in 1..Len(ns) : ns[i] <= n

\* skuGroups as the sequence of its entries in Object.keys order: per SKU the sort
\* orders of its valid files in the order they were pushed.
SkuGroups(files) ==
    LET skus == ObjectKeys(FirstAppearances(files))
    IN [g \in 1..Len(skus) |->
           LET own == SelectSeq(files, LAMBDA f : f.isValid /\ f.sku = skus[g])
           IN [sku |-> skus[g], sortOrders |-> [i \in 1..Len(own) |-> own[i].sortOrder]]]
\* countFrequency as the sequence Object.entries gives: its keys are the counts
\* written as strings, all integer-like, so they come in ascending numeric order.
CountKey(count) == ToString(count)
ParseCount(key, maxCount) == CHOOSE c \in 0..maxCount : CountKey(c) = key
\* countFrequency enumerated in the order its keys were first written, as a map
\* that keeps insertion order would give them.
CountFrequencyEntriesAsInserted(groups) ==
    LET counts == [g \in 1..Len(groups) |-> Len(groups[g].sortOrders)]
        first == SelectSeq([g \in 1..Len(groups) |-> g],
                           LAMBDA g : \A h \in 1..(g - 1) : counts[h] # counts[g])
    IN [e \in 1..Len(first) |->
           [count |-> CountKey(counts[first[e]]),
            frequency |-> Cardinality({g \in 1..Len(groups) : counts[g] = counts[first[e]]})]]
CountFrequencyEntries(groups) ==
    LET counts == {Len(groups[g].sortOrders) : g \in 1..Len(groups)}
        asc == Ascending(counts)
    IN [e \in 1..Len(asc) |->
           [count |-> CountKey(asc[e]),
            frequency |-> Cardinality({g \in 1..Len(groups) : Len(groups[g].sortOrders) = asc[e]})]]
\* The loop over the entries: an entry takes over when its frequency is greater than
\* the greatest seen so far.
FrequencyBeatsOrTies(frequency, maxFrequency) == frequency >= maxFrequency
FrequencyBeats(frequency, maxFrequency) == frequency > maxFrequency
RECURSIVE MostCommonUpTo(_, _, _)
MostCommonUpTo(entries, k, maxCount) ==
    IF k = 0 THEN [mostCommonCount |-> 0, maxFrequency |-> 0]
    ELSE LET seen == MostCommonUpTo(entries, k - 1, maxCount)
         IN IF FrequencyBeats(entries[k].frequency, seen.maxFrequency)
            THEN [mostCommonCount |-> ParseCount(entries[k].count, maxCount),
                  maxFrequency |-> entries[k].frequency]
            ELSE seen
\* maxFrequency >= skus.length * 0.5, in halves.
IsConsistentStrictMajority(maxFrequency, totalSkus) == 2 * maxFrequency > totalSkus
IsConsistent(maxFrequency, totalSkus) == 2 * maxFrequency >= totalSkus
HasFewerByTwo(consistent, actualCount, mostCommonCount) ==
    consistent /\ actualCount + 1 < mostCommonCount
HasFewerThanExpected(consistent, actualCount, mostCommonCount) ==
    consistent /\ actualCount < mostCommonCount
GapsUpToMax(sortOrders) ==
    Ascending({i \in MinOf(sortOrders)..(MaxOf(sortOrders) + 1) :
                 \A j \in 1..Len(sortOrders) : sortOrders[j] # i})
Gaps(sortOrders) ==
    Ascending({i \in MinOf(sortOrders)..MaxOf(sortOrders) :
                 \A j \in 1..Len(sortOrders) : sortOrders[j] # i})
\* One round of the loop over the SKUs: whether a warning is pushed, and the warning.
WarningFor(group, mostCommonCount, consistent) ==
    LET sortOrders == SortNumbers(group.sortOrders)
        actualCount == Len(sortOrders)
        gaps == Gaps(sortOrders)
        hasFewerThanExpected == HasFewerThanExpected(consistent, actualCount, mostCommonCount)
        hasGaps == Len(gaps) > 0
        missingNumbers ==
            IF hasFewerThanExpected /\ ~hasGaps
            THEN gaps \o [i \in 1..(mostCommonCount - actualCount) |-> MaxOf(sortOrders) + i]
            ELSE gaps
    IN [pushed |-> hasGaps \/ hasFewerThanExpected,
        warning |-> [sku |-> group.sku, expectedCount |-> mostCommonCount,
                     actualCount |-> actualCount, missingNumbers |-> missingNumbers,
                     hasGaps |-> hasGaps]]
\* warnings.sort((a, b) => a.sku.localeCompare(b.sku)): a stable sort.
WarningsAsPushed(ws) == ws
SortWarnings(ws) ==
    [k \in 1..Len(ws) |->
        ws[CHOOSE i \in 1..Len(ws) :
               Cardinality({j \in 1..Len(ws) :
                               \/ LocaleRank[ws[j].sku] < LocaleRank[ws[i].sku]
                               \/ LocaleRank[ws[j].sku] = LocaleRank[ws[i].sku] /\ j < i}) = k - 1]]
\* skus.length < 2: a single SKU is not analysed.
TooFewSkusOnlyNone(totalSkus) == totalSkus < 1
TooFewSkus(totalSkus) == totalSkus < 2
NoAnalysis ==
    [isNull |-> TRUE, mostCommonCount |-> 0, totalSkus |-> 0, skusWithExpectedCount |-> 0,
     warnings |-> <<>>, isConsistentPattern |-> FALSE]
AnalyzeImagePattern(files) ==
    LET validFiles == SelectSeq(files, LAMBDA f : f.isValid)
        groups == SkuGroups(validFiles)
        mode == MostCommonUpTo(CountFrequencyEntries(groups), Len(CountFrequencyEntries(groups)),
                               Len(validFiles))
        isConsistentPattern == IsConsistent(mode.maxFrequency, Len(groups))
        rounds == [g \in 1..Len(groups) |->
                      WarningFor(groups[g], mode.mostCommonCount, isConsistentPattern)]
        pushed == SelectSeq(rounds, LAMBDA w : w.pushed)
    IN IF Len(validFiles) = 0 THEN NoAnalysis
       ELSE IF Len(groups) = 0 THEN NoAnalysis
       ELSE IF TooFewSkus(Len(groups)) THEN NoAnalysis
       ELSE [isNull |-> FALSE,
             mostCommonCount |-> mode.mostCommonCount,
             totalSkus |-> Len(groups),
             skusWithExpectedCount |-> mode.maxFrequency,
             warnings |-> SortWarnings([i \in 1..Len(pushed) |-> pushed[i].warning]),
             isConsistentPattern |-> isConsistentPattern]

\* One call of analyzeImagePattern on a list of parsed files; no request is running.
PatternInit ==
    /\ InitRuns([r \in Runs |-> NoRun])
    /\ RouteIdle
    /\ \/ input \in ParsedFilesInputs(MaxFiles)
       \/ \E k \in 1..MaxSkus, order \in SkuOrders :
              \E choice \in [1..k -> OrderSeqs] : input = BlockFiles(order, choice, k)
    /\ output = <<>>
AnalyzeImagePatternCall ==
    /\ output = <<>>
    /\ output' = <<AnalyzeImagePattern(input)>>
    /\ UNCHANGED <<input, routeVars, inputVars, pc, gi, results, allResults, uploads, queue,
                   activeCount, deleteCall, reorderCall, failures, gallery>>

\* analyzeImagePattern applied to a list of at most MaxSkus files and then to another
\* list of the same valid files: a permutation of the first, with or without its
\* invalid files.  The second list is kept beside the two analyses.
PermuteInit ==
    /\ InitRuns([r \in Runs |-> NoRun])
    /\ RouteIdle
    /\ \/ input \in ParsedFilesInputs(MaxFiles)
       \/ \E k \in 1..MaxSkus, order \in SkuOrders :
              \E choice \in [1..k -> OrderSeqs] :
                  /\ Len(Blocks(order, choice, k)) <= MaxSkus
                  /\ input = BlockFiles(order, choice, k)
    /\ output = <<>>
ReanalysePermutedCall ==
    /\ Len(output) = 1
    /\ \E p \in Permutations(1..Len(input)) : \E keepInvalid \in BOOLEAN :
           LET permuted == [i \in 1..Len(input) |-> input[p[i]]]
               other == IF keepInvalid THEN permuted ELSE ValidFiles(permuted)
           IN output' = <<output[1], AnalyzeImagePattern(other), other>>
    /\ UNCHANGED <<input, routeVars, inputVars, pc, gi, results, allResults, uploads, queue,
                   activeCount, deleteCall, reorderCall, failures, gallery>>
\* ------------------------------------------------------------ alt text
\* What processOneUpload computes before its first await and what createProductMedia
\* sends as the media's alt.  Settings come with a mapping from positions to texts,
\* possibly empty or blank ones, or without the mapping.
AltPositions == {1, 2, 10}
AltTexts == {"Front", "", " "}
AltSortOrders == {0, 1, 2, 9, 10, 12, 100}
AltTitles == {"Shirt", ""}
AltSettingsInputs ==
    {[seoOptimization |-> seo, altTextByPosition |-> m] :
        seo \in BOOLEAN, m \in UNION {[P -> AltTexts] : P \in SUBSET AltPositions}} \cup
    {[seoOptimization |-> seo] : seo \in BOOLEAN}
AltTextInputs ==
    {[file |-> [sortOrder |-> n], product |-> [title |-> title], settings |-> st] :
        n \in AltSortOrders, title \in AltTitles, st \in AltSettingsInputs}

\* str.padStart(targetLength, padString) for a padString of one character
RECURSIVE PadStart(_, _, _)
PadStart(str, targetLength, padString) ==
    IF Len(str) >= targetLength THEN str
    ELSE PadStart(padString \o str, targetLength, padString)
\* settings.altTextByPosition?.[file.sortOrder]
CustomText(uploadSettings, sortOrder) ==
    IF "altTextByPosition" \in DOMAIN uploadSettings
    THEN IF sortOrder \in DOMAIN uploadSettings.altTextByPosition
         THEN uploadSettings.altTextByPosition[sortOrder] ELSE Undefined
    ELSE Undefined
\* customText ?? `View ...`: only a missing entry gives way to the default.
SuffixNullish(customText, sortOrder) ==
    IF customText = Undefined THEN "View " \o PadStart(ToString(sortOrder), 2, "0")
    ELSE customText
\* customText || `View ${String(file.sortOrder).padStart(2, "0")}`
Suffix(customText, sortOrder) ==
    OrElse(customText, "View " \o PadStart(ToString(sortOrder), 2, "0"))
\* let altText; if (settings.seoOptimization) { ... }
AltText(file, product, uploadSettings) ==
    IF uploadSettings.seoOptimization
    THEN product.title \o " - " \o
             Suffix(CustomText(uploadSettings, file.sortOrder), file.sortOrder)
    ELSE Undefined
\* alt: altText || ""
MediaAlt(altText) == OrElse(altText, "")

AltTextInit ==
    /\ InitRuns([r \in Runs |-> NoRun])
    /\ RouteIdle
    /\ input \in AltTextInputs
    /\ output = <<>>
\* An upload task computes its alt text and, at its registration step, passes it on.
AltTextCall ==
    /\ output = <<>>
    /\ output' = <<[altText |-> AltText(input.file, input.product, input.settings),
                    alt |-> MediaAlt(AltText(input.file, input.product, input.settings))]>>
    /\ UNCHANGED <<input, routeVars, inputVars, pc, gi, results, allResults, uploads, queue,
                   activeCount, deleteCall, reorderCall, failures, gallery>>
\* -------------------------------------------------------------------- Next
Next ==
    \/ \E r \in Runs : SkipGroup(r)
    \/ \E r \in Runs : DryRunGroup(r)
    \/ \E r \in Runs : EnterGroup(r)
    \/ \E r \in Runs : DeleteReturn(r)
    \/ \E t \in LiveTaskIds : CreateStagedUploadReturn(t)
    \/ \E t \in LiveTaskIds : UploadToStagedTargetReturn(t)
    \/ \E t \in LiveTaskIds : CreateProductMediaReturn(t)
    \/ \E r \in Runs : AwaitUploads(r)
    \/ \E r \in Runs : ReorderReadReturn(r)
    \/ \E r \in Runs : ReorderReturn(r)
    \/ \E r \in Runs : ReturnRun(r)

Spec == Init /\ [][Next]_vars
SpecPool == PoolInit /\ [][Next]_vars
SpecGallery == GalleryInit /\ [][Next]_vars
\* One request: either one SKU group of PoolFiles files appended to the product
\* without a gallery, so that a task waits in the limiter's queue, or one SKU group
\* of one file under any settings and any lookup result.
FairInit ==
    /\ RouteIdle
    /\ PureIdle
    /\ \E inp \in OneGroupInputs(1) \cup
                   {o \in OneGroupInputs(PoolFiles) :
                       /\ o.settings = [dryRun |-> FALSE, uploadStrategy |-> "append"]
                       /\ o.productMap = [s \in {SkuOf(1)} |-> ProductNoMedia]} :
           InitRuns([r \in Runs |-> IF r = "r1" THEN inp ELSE NoRun])
\* Every transport call returns and the event loop runs every continuation that is
\* ready: a step that can be taken is eventually taken.
FairSpec == FairInit /\ [][Next]_vars /\ WF_vars(Next)

\* The route's action around processUploadQueue.
ActionNext ==
    \/ \E r \in Runs : ActionStart(r)
    \/ \E r \in Runs : LookupReturn(r)
    \/ \E r \in Runs : ActionReturn(r)
    \/ Next
SpecAction == ActionInit /\ [][ActionNext]_vars

\* parseFilename applied to a file name.
ParseNext == ParseFilenameCall
SpecParse == ParseInit /\ [][ParseNext]_vars

\* validateFile applied to a file.
ValidateNext == ValidateFileCall
SpecValidate == ValidateInit /\ [][ValidateNext]_vars

\* groupFilesBySku applied to a list of parsed files.
GroupNext == GroupFilesBySkuCall
SpecGroup == GroupInit /\ [][GroupNext]_vars

\* groupFilesBySku applied to a list of parsed files and then to its own result.
RegroupNext == GroupFilesBySkuCall \/ RegroupCall
SpecRegroup == GroupInit /\ [][RegroupNext]_vars

\* analyzeImagePattern applied to a list of parsed files.
PatternNext == AnalyzeImagePatternCall
SpecPattern == PatternInit /\ [][PatternNext]_vars

\* The alt text of one upload task.
AltTextNext == AltTextCall
SpecAltText == AltTextInit /\ [][AltTextNext]_vars
\* analyzeImagePattern applied to a list of parsed files and to a rearrangement of it.
PermuteNext == AnalyzeImagePatternCall \/ ReanalysePermutedCall
SpecPermute == PermuteInit /\ [][PermuteNext]_vars
\* ================================================================== claims
\* Vocabulary of the claims, stated on the inputs and the call records directly.
SkuIsKey(r, g) == groupedFiles[r][g].sku \in DOMAIN productMap[r]
HadMedia(r, g) == Len(productMap[r][groupedFiles[r][g].sku].mediaIds) > 0
UploadsRun(r, g) == SkuIsKey(r, g) /\ ~settings[r].dryRun
GroupPast(r, g) == g < gi[r]
NumFiles(r, g) == Len(groupedFiles[r][g].files)
RECURSIVE Offset(_, _)
Offset(r, g) == IF g = 1 THEN 0 ELSE Offset(r, g - 1) + NumFiles(r, g - 1)
\* The results a past group contributed to allResults.
GroupBlock(r, g) == SubSeq(allResults[r], Offset(r, g) + 1, Offset(r, g) + NumFiles(r, g))
ResultsNamed(r, name) == {j \in 1..Len(allResults[r]) : allResults[r][j].filename = name}
CallReturned(call) == call.outcome \notin {"none", "pending"}
CallFailed(call) == CallReturned(call) /\ call.outcome # "ok"
NoTransportCalls(r, g) ==
    /\ Len(uploads[r][g]) = 0
    /\ deleteCall[r][g].issued = 0
    /\ reorderCall[r][g].issued = 0
AllOk(task) == task.returned = <<"ok", "ok", "ok">>
SomeFailed(task) == \E k \in 1..Len(task.returned) : task.returned[k] # "ok"
Successes(r, g) == Cardinality({i \in 1..Len(uploads[r][g]) : AllOk(uploads[r][g][i])})
AllSettled(r, g) ==
    /\ Len(uploads[r][g]) = NumFiles(r, g)
    /\ \A i \in 1..NumFiles(r, g) : uploads[r][g][i].state \in {"MediaRegistered", "Error"}

\* C1: at most 5 upload tasks are started and not yet settled at any time, counted over
\* all runs of the process together, however many tasks are pending.
InFlightTasks == {t \in LiveTaskIds : InFlight(TaskOf(t))}
C1_AtMostFiveInFlight == Cardinality(InFlightTasks) <= 5
\* Five tasks of two different runs are in flight and a sixth waits in the queue.
C1_Witness ==
    /\ Cardinality(InFlightTasks) = 5
    /\ Len(queue) > 0
    /\ \E t, u \in InFlightTasks : t[1] # u[1]

\* C2 (as claimed): under replace without dryRun, every product with existing media gets
\* exactly one deleteMedia call over the whole run, returned before the first upload
\* call for that product, also when several SKU groups resolve to that product.
RECURSIVE DeleteCallsUpTo(_, _, _)
DeleteCallsUpTo(r, id, g) ==
    IF g = 0 THEN 0
    ELSE DeleteCallsUpTo(r, id, g - 1) +
         (IF SkuIsKey(r, g) /\ productMap[r][groupedFiles[r][g].sku].id = id
          THEN deleteCall[r][g].issued ELSE 0)
C2_OncePerProduct ==
    \A r \in Runs : \A g \in GroupIds(r) :
        (settings[r].uploadStrategy = "replace" /\ UploadsRun(r, g) /\ HadMedia(r, g)) =>
            LET id == productMap[r][groupedFiles[r][g].sku].id
            IN /\ DeleteCallsUpTo(r, id, NumGroups(r)) <= 1
               /\ deleteCall[r][g].before = 0
               /\ UploadCallsFor(r, id) > 0 => DeleteCallsUpTo(r, id, NumGroups(r)) = 1
               /\ pc[r] = "done" => DeleteCallsUpTo(r, id, NumGroups(r)) = 1
\* C2 (amended): under replace without dryRun, every SKU group whose product has
\* existing media gets exactly one deleteMedia call, returned (ok or failed) before the
\* first upload call of that group; groups of the same product get one call each.
C2_OncePerGroup ==
    \A r \in Runs : \A g \in GroupIds(r) :
        (settings[r].uploadStrategy = "replace" /\ UploadsRun(r, g) /\ HadMedia(r, g)) =>
            /\ deleteCall[r][g].issued <= 1
            /\ SumLen(uploads[r][g]) > 0 =>
                   (deleteCall[r][g].issued = 1 /\ CallReturned(deleteCall[r][g]))
            /\ GroupPast(r, g) => deleteCall[r][g].issued = 1
\* Two groups of one product with a gallery are past, each with its own delete call,
\* the second issued after upload calls of the first.
C2_Witness ==
    \E r \in Runs : \E g, h \in GroupIds(r) :
        /\ g < h /\ pc[r] = "done"
        /\ settings[r].uploadStrategy = "replace"
        /\ UploadsRun(r, g) /\ UploadsRun(r, h) /\ HadMedia(r, g)
        /\ productMap[r][groupedFiles[r][g].sku] = productMap[r][groupedFiles[r][h].sku]
        /\ deleteCall[r][g].issued = 1 /\ deleteCall[r][h].issued = 1
        /\ deleteCall[r][h].before > 0

\* C3: in a replace group no upload task is submitted to the pool before the group's
\* deleteMedia call has returned, and a failed deleteMedia still leaves every upload
\* task of the group dispatched.
C3_DeleteBeforeDispatch ==
    \A r \in Runs : \A g \in GroupIds(r) :
        (settings[r].uploadStrategy = "replace" /\ UploadsRun(r, g) /\ HadMedia(r, g)) =>
            /\ Len(uploads[r][g]) > 0 => CallReturned(deleteCall[r][g])
            /\ CallFailed(deleteCall[r][g]) => Len(uploads[r][g]) = NumFiles(r, g)
            /\ (CallFailed(deleteCall[r][g]) /\ GroupPast(r, g)) =>
                   \A i \in 1..NumFiles(r, g) : Len(uploads[r][g][i].issued) > 0
\* A group whose delete call failed has an upload registered all the same.
C3_Witness ==
    \E r \in Runs : \E g \in GroupIds(r) :
        /\ settings[r].uploadStrategy = "replace"
        /\ CallFailed(deleteCall[r][g])
        /\ \E i \in 1..Len(uploads[r][g]) : uploads[r][g][i].state = "MediaRegistered"

\* C4: a SKU group whose SKU is no key of the product map gets exactly one result per
\* file, status skipped and productFound false, and no transport call is ever issued
\* for it, whatever the settings.
C4_UnresolvedSkipped ==
    \A r \in Runs : \A g \in GroupIds(r) :
        ~SkuIsKey(r, g) =>
            /\ NoTransportCalls(r, g)
            /\ \A i \in 1..NumFiles(r, g) :
                   LET name == groupedFiles[r][g].files[i].originalFilename
                   IN /\ Cardinality(ResultsNamed(r, name)) = (IF GroupPast(r, g) THEN 1 ELSE 0)
                      /\ GroupPast(r, g) =>
                             /\ GroupBlock(r, g)[i].filename = name
                             /\ GroupBlock(r, g)[i].status = "skipped"
                             /\ GroupBlock(r, g)[i].productFound = FALSE
\* A finished run skipped one group and uploaded for another.
C4_Witness ==
    \E r \in Runs : \E g, h \in GroupIds(r) :
        /\ pc[r] = "done"
        /\ ~SkuIsKey(r, g)
        /\ \E i \in 1..Len(uploads[r][h]) : uploads[r][h][i].state = "MediaRegistered"

\* C5: under dryRun, for each strategy, every file of a resolved SKU gets status
\* dry-run and the whole run issues no transport call.
C5_DryRunNoTransport ==
    \A r \in Runs :
        settings[r].dryRun =>
            \A g \in GroupIds(r) :
                /\ NoTransportCalls(r, g)
                /\ (SkuIsKey(r, g) /\ GroupPast(r, g)) =>
                       \A i \in 1..NumFiles(r, g) :
                           /\ GroupBlock(r, g)[i].filename =
                                  groupedFiles[r][g].files[i].originalFilename
                           /\ GroupBlock(r, g)[i].status = "dry-run"
\* A finished dry run under replace over a product that has a gallery.
C5_Witness ==
    \E r \in Runs : \E g \in GroupIds(r) :
        /\ pc[r] = "done"
        /\ settings[r] = [dryRun |-> TRUE, uploadStrategy |-> "replace"]
        /\ SkuIsKey(r, g) /\ HadMedia(r, g)
        /\ NumFiles(r, g) > 1

\* C6: a dispatched task's result is success iff its three transport steps succeeded
\* and error iff one of them failed, a function of its own steps only; a failing task
\* keeps no sibling from being started or from settling.
C6_OwnStepsDecide ==
    \A r \in Runs : \A g \in GroupIds(r) :
        /\ \A i \in 1..Len(uploads[r][g]) :
               LET task == uploads[r][g][i]
               IN /\ (task.result.status = "success") = AllOk(task)
                  /\ (task.result.status = "error") = SomeFailed(task)
                  /\ (task.state \in {"MediaRegistered", "Error"}) =
                         (task.result.status \in {"success", "error"})
        /\ (UploadsRun(r, g) /\ GroupPast(r, g)) =>
               /\ AllSettled(r, g)
               /\ \A i \in 1..NumFiles(r, g) :
                      /\ Len(uploads[r][g][i].issued) > 0
                      /\ GroupBlock(r, g)[i] = uploads[r][g][i].result
                      /\ (GroupBlock(r, g)[i].status = "success") = AllOk(uploads[r][g][i])
\* In a past group a task failed at its first step and a sibling submitted after it
\* succeeded.
C6_Witness ==
    \E r \in Runs : \E g \in GroupIds(r) :
        /\ GroupPast(r, g)
        /\ \E i, j \in 1..Len(uploads[r][g]) :
               /\ i < j
               /\ uploads[r][g][i].state = "Error"
               /\ Len(uploads[r][g][i].returned) = 1
               /\ GroupBlock(r, g)[i].status = "error"
               /\ GroupBlock(r, g)[j].status = "success"

\* C7: a failed group-level deleteMedia or reorderMedia call changes no result: the
\* results of every past group are those fixed by the inputs and by the outcomes of
\* the files' own transport steps, and the run goes on to process the later groups.
ExpectedResult(r, g, i) ==
    IF ~SkuIsKey(r, g)
    THEN [filename |-> groupedFiles[r][g].files[i].originalFilename,
          detectedSku |-> groupedFiles[r][g].files[i].sku, productFound |-> FALSE,
          productTitle |-> Undefined, productId |-> Undefined, status |-> "skipped",
          errorDetails |-> <<"No product found with SKU: ", groupedFiles[r][g].sku>>]
    ELSE LET product == productMap[r][groupedFiles[r][g].sku]
             file == IF settings[r].dryRun THEN groupedFiles[r][g].files[i]
                     ELSE SortedFiles(r, g)[i]
             status == IF settings[r].dryRun THEN "dry-run"
                       ELSE IF AllOk(uploads[r][g][i]) THEN "success" ELSE "error"
             details == IF status = "error"
                        THEN uploads[r][g][i].returned[Len(uploads[r][g][i].returned)]
                        ELSE Undefined
         IN [filename |-> file.originalFilename, detectedSku |-> file.sku,
             productFound |-> TRUE, productTitle |-> product.title,
             productId |-> product.id, status |-> status, errorDetails |-> details]
C7_GroupCallFailuresLeaveResults ==
    \A r \in Runs :
        /\ \A g \in GroupIds(r) :
               GroupPast(r, g) =>
                   \A i \in 1..NumFiles(r, g) : GroupBlock(r, g)[i] = ExpectedResult(r, g, i)
        /\ pc[r] = "done" =>
               /\ gi[r] = NumGroups(r) + 1
               /\ Len(allResults[r]) = Offset(r, NumGroups(r) + 1)
\* A finished run whose first group's reorder call failed after a successful upload,
\* and whose later group uploaded too.
C7_Witness ==
    \E r \in Runs : \E g, h \in GroupIds(r) :
        /\ g < h /\ pc[r] = "done"
        /\ CallFailed(reorderCall[r][g])
        /\ \E i \in 1..NumFiles(r, g) : GroupBlock(r, g)[i].status = "success"
        /\ \E i \in 1..NumFiles(r, h) : GroupBlock(r, h)[i].status = "success"

\* C8: each file's transport calls are createStagedUpload, uploadToStagedTarget,
\* createProductMedia, each at most once, in that order, each only after the previous
\* one succeeded; after a failed step no further call is issued for the file and its
\* result carries that step's message.
C8_StepsInOrder ==
    \A t \in LiveTaskIds :
        LET task == TaskOf(t)
            n == Len(task.issued)
            m == Len(task.returned)
        IN /\ n <= 3
           /\ \A k \in 1..n : task.issued[k] = UploadSteps[k]
           /\ m <= n /\ n <= m + 1
           /\ \A k \in 1..(m - 1) : task.returned[k] = "ok"
           /\ (task.state = "queued") = (n = 0)
           /\ (task.state = "Requested") = (n = 1 /\ m = 0)
           /\ (task.state = "StagedTargetReady") = (n = 2 /\ m = 1)
           /\ (task.state = "BytesUploaded") = (n = 3 /\ m = 2)
           /\ (task.state = "MediaRegistered") = (m = 3 /\ AllOk(task))
           /\ (task.state = "Error") = SomeFailed(task)
           /\ SomeFailed(task) =>
                  /\ n = m
                  /\ task.returned[m] \in StepErrors(m)
                  /\ task.result.status = "error"
                  /\ task.result.errorDetails = task.returned[m]
\* In a past group a file failed at the byte upload: two calls issued, none after.
C8_Witness ==
    \E r \in Runs : \E g \in GroupIds(r) :
        /\ GroupPast(r, g)
        /\ \E i \in 1..Len(uploads[r][g]) :
               /\ uploads[r][g][i].issued = <<"createStagedUpload", "uploadToStagedTarget">>
               /\ uploads[r][g][i].returned = <<"ok", "Failed to upload file">>
               /\ GroupBlock(r, g)[i].errorDetails = "Failed to upload file"

\* C9: in a prepend group the reorder call is issued only after every upload task of
\* the group has settled (MediaRegistered or Error).
C9_ReorderAfterAllSettled ==
    \A r \in Runs : \A g \in GroupIds(r) :
        (reorderCall[r][g].issued > 0 \/ (pc[r] = "reorder" /\ gi[r] = g)) =>
            /\ settings[r].uploadStrategy = "prepend"
            /\ AllSettled(r, g)
\* A reorder call is in flight for a group with one failed and one registered upload.
C9_Witness ==
    \E r \in Runs :
        /\ pc[r] = "reorder"
        /\ reorderCall[r][gi[r]].outcome = "pending"
        /\ \E i, j \in 1..Len(uploads[r][gi[r]]) :
               /\ uploads[r][gi[r]][i].state = "Error"
               /\ uploads[r][gi[r]][j].state = "MediaRegistered"

\* C10 (as claimed): every non-dry-run prepend group whose product had media gets
\* exactly one reorder call after its uploads settle, whatever the number of
\* successful uploads; every other group gets none.
PrependWithMedia(r, g) ==
    /\ settings[r].uploadStrategy = "prepend"
    /\ UploadsRun(r, g)
    /\ HadMedia(r, g)
C10_OneReorderWhateverSucceeded ==
    \A r \in Runs : \A g \in GroupIds(r) :
        /\ reorderCall[r][g].issued > 0 => AllSettled(r, g)
        /\ ~PrependWithMedia(r, g) => reorderCall[r][g].issued = 0
        /\ (PrependWithMedia(r, g) /\ GroupPast(r, g)) => reorderCall[r][g].issued = 1
\* C10 (amended): such a group gets exactly one reorder call after its uploads settle
\* when at least one upload succeeded, and none when no upload succeeded; every other
\* group gets none.
C10_OneReorderIfAnySucceeded ==
    \A r \in Runs : \A g \in GroupIds(r) :
        /\ reorderCall[r][g].issued > 0 => AllSettled(r, g)
        /\ ~PrependWithMedia(r, g) => reorderCall[r][g].issued = 0
        /\ (PrependWithMedia(r, g) /\ GroupPast(r, g)) =>
               reorderCall[r][g].issued = (IF Successes(r, g) >= 1 THEN 1 ELSE 0)
\* A past prepend group with one failed and one successful upload got its one call.
C10_Witness ==
    \E r \in Runs : \E g \in GroupIds(r) :
        /\ PrependWithMedia(r, g) /\ GroupPast(r, g)
        /\ Successes(r, g) = 1 /\ NumFiles(r, g) = 2
        /\ reorderCall[r][g].issued = 1
        /\ reorderCall[r][g].newImagesCount = 1

\* C11: when a prepend group with N >= 1 successful uploads on a product that had media
\* ends with its reorder call succeeding (the gallery read returned data and the call
\* returned normally), the gallery is the N media the group registered, in the order
\* they stood in before, followed by all other media in their order; the moves sent
\* name exactly those N media, for a gallery of any size.
ReorderReturnsOk(r) ==
    /\ pc[r] \in {"reorder", "moves"}
    /\ pc'[r] = "loop"
    /\ reorderCall'[r][gi[r]].outcome = "ok"
    /\ reorderCall'[r][gi[r]].read = "ok"
RegisteredBy(r, g) ==
    {NewMediaId(<<r, g, i>>) : i \in {j \in 1..Len(uploads[r][g]) : AllOk(uploads[r][g][j])}}
NewMediaFirst(r) ==
    LET g == gi[r]
        id == productMap[r][groupedFiles[r][g].sku].id
        new == RegisteredBy(r, g)
        moves == reorderCall'[r][g].moves
    IN /\ gallery'[id] = SelectSeq(gallery[id], LAMBDA m : m \in new) \o
                         SelectSeq(gallery[id], LAMBDA m : m \notin new)
       /\ Len(moves) = Cardinality(new)
       /\ {moves[k].id : k \in 1..Len(moves)} = new
C11_NewMediaFirst ==
    [][\A r \in Runs : ReorderReturnsOk(r) => NewMediaFirst(r)]_vars
\* C11, for galleries within the page read: the same, when the gallery holds at most
\* MediaPageSize media as the reorder call reads it.
C11_NewMediaFirstWithinPage ==
    [][\A r \in Runs :
          (/\ ReorderReturnsOk(r)
           /\ Len(gallery[productMap[r][groupedFiles[r][gi[r]].sku].id]) <= MediaPageSize)
              => NewMediaFirst(r)]_vars

\* C19: each of the five transport operations reports failure whenever a remote request
\* it makes is answered with a non-success response or with errors, the gallery read of
\* reorderProductMedia included; none returns normally after such an answer.
C19_FailedRequestFailsCall ==
    /\ \A t \in LiveTaskIds :
           SomeFailed(TaskOf(t)) =>
               /\ TaskOf(t).state = "Error"
               /\ TaskOf(t).result.status = "error"
    /\ \A r \in Runs : \A g \in GroupIds(r) :
           /\ deleteCall[r][g].outcome \in DeleteProductMediaErrors => CallFailed(deleteCall[r][g])
           /\ reorderCall[r][g].read = "errors" => reorderCall[r][g].outcome # "ok"

\* Vocabulary of the claims about the route's action.
FilesOf(r) == request[r].parsedFiles
InvalidIndexes(r) == {i \in 1..Len(FilesOf(r)) : ~FilesOf(r)[i].isValid}
ValidIndexes(r) == {i \in 1..Len(FilesOf(r)) : FilesOf(r)[i].isValid}
IndexOfName(r, name) == CHOOSE i \in 1..Len(FilesOf(r)) : FilesOf(r)[i].originalFilename = name
Returned(r) == apc[r] = "returned"
NormalReturn(r) == Returned(r) /\ request[r].form = "ok" /\ ValidIndexes(r) # {}
NoValidReturn(r) == Returned(r) /\ request[r].form = "ok" /\ ValidIndexes(r) = {}
CatchReturn(r) == Returned(r) /\ request[r].form # "ok"
\* The k-th smallest element of a set of numbers.
RECURSIVE KthOf(_, _)
KthOf(S, k) ==
    LET least == CHOOSE x \in S : \A y \in S : x <= y
    IN IF k = 1 THEN least ELSE KthOf(S \ {least}, k - 1)
IndexInGallery(id, m) == CHOOSE k \in 1..Len(gallery[id]) : gallery[id][k] = m

\* C12: the result sequence of a run is fixed by the submission order: the results of
\* the invalid files in input order, then for each SKU group in iteration order the
\* results of its files in ascending sortOrder (ties in input order), each result the
\* one its file's own transport outcomes determine; so runs that agree on inputs and
\* per-call outcomes return the same sequence whatever the interleaving of the tasks.
C12_ResultsInSubmissionOrder ==
    \A r \in Runs :
        NormalReturn(r) =>
            LET res == response[r].results
                ninv == Cardinality(InvalidIndexes(r))
            IN /\ Len(res) = ninv + Offset(r, NumGroups(r) + 1)
               /\ \A j \in 1..ninv :
                      /\ res[j].filename = FilesOf(r)[KthOf(InvalidIndexes(r), j)].originalFilename
                      /\ res[j].status = "error"
               /\ \A g \in GroupIds(r) : \A i \in 1..NumFiles(r, g) :
                      /\ res[ninv + Offset(r, g) + i] = ExpectedResult(r, g, i)
                      /\ res[ninv + Offset(r, g) + i].detectedSku = groupedFiles[r][g].sku
               /\ \A g \in GroupIds(r) : \A i, j \in 1..NumFiles(r, g) :
                      i < j =>
                          LET a == IndexOfName(r, res[ninv + Offset(r, g) + i].filename)
                              b == IndexOfName(r, res[ninv + Offset(r, g) + j].filename)
                          IN \/ FilesOf(r)[a].sortOrder < FilesOf(r)[b].sortOrder
                             \/ FilesOf(r)[a].sortOrder = FilesOf(r)[b].sortOrder /\ a < b
\* A returned run with an invalid file and a group of two files that came in descending
\* sortOrder, whose second upload was registered before its first.
C12_Witness ==
    \E r \in Runs : \E g \in GroupIds(r) :
        /\ NormalReturn(r)
        /\ InvalidIndexes(r) # {}
        /\ Len(uploads[r][g]) = 2
        /\ AllOk(uploads[r][g][1]) /\ AllOk(uploads[r][g][2])
        /\ IndexOfName(r, SortedFiles(r, g)[1].originalFilename) >
               IndexOfName(r, SortedFiles(r, g)[2].originalFilename)
        /\ settings[r].uploadStrategy = "append"
        /\ IndexInGallery(ProductOf(r, g).id, NewMediaId(<<r, g, 2>>)) <
               IndexInGallery(ProductOf(r, g).id, NewMediaId(<<r, g, 1>>))

\* C13: a run over a well-formed list of input files returns exactly one result per
\* input file, valid and invalid together, and a result once appended or returned is
\* never modified or removed afterwards.
IsPrefix(a, b) == Len(a) <= Len(b) /\ SubSeq(b, 1, Len(a)) = a
OneResultPerFile(r) ==
    (Returned(r) /\ request[r].form = "ok") =>
        /\ Len(response[r].results) = Len(FilesOf(r))
        /\ \A i \in 1..Len(FilesOf(r)) :
               Cardinality({j \in 1..Len(response[r].results) :
                               response[r].results[j].filename =
                                   FilesOf(r)[i].originalFilename}) = 1
AppendOnly(r) ==
    /\ IsPrefix(allResults[r], allResults'[r])
    /\ Returned(r) => response'[r] = response[r]
    /\ \A g \in GroupIds(r) : \A i \in 1..Len(uploads[r][g]) :
           uploads[r][g][i].result # NoResult =>
               uploads'[r][g][i].result = uploads[r][g][i].result
CountsMatch(resp) ==
    /\ resp.summary.total = Len(resp.results)
    /\ resp.summary.successful =
           Cardinality({j \in 1..Len(resp.results) : resp.results[j].status = "success"})
    /\ resp.summary.failed =
           Cardinality({j \in 1..Len(resp.results) : resp.results[j].status = "error"})
    /\ resp.summary.skipped =
           Cardinality({j \in 1..Len(resp.results) : resp.results[j].status = "skipped"})
DryRunResultsIn(resp) ==
    Cardinality({j \in 1..Len(resp.results) : resp.results[j].status = "dry-run"})
C15_SuccessIffNoneFailed ==
    \A r \in Runs :
        Returned(r) =>
            /\ response[r].success = (response[r].summary.failed = 0)
            /\ response[r].success =
                   (\A j \in 1..Len(response[r].results) :
                        response[r].results[j].status # "error")
\* C15, the file list not empty: the same for every request that carries a file.
C15_SuccessIffNoneFailedGivenFiles ==
    \A r \in Runs :
        (Returned(r) /\ (request[r].form = "ok" => Len(FilesOf(r)) > 0)) =>
            response[r].success = (response[r].summary.failed = 0)

C18_LookupFailuresOnlySkip ==
    \A r \in Runs :
        /\ Len(lookups[r]) <= Len(uniqueSKUs[r])
        /\ \A l \in 1..Len(lookups[r]) :
               /\ lookups[r][l].sku = uniqueSKUs[r][l]
               /\ (lookups[r][l].outcome = "product") = (lookups[r][l].sku \in DOMAIN productMap[r])
        /\ \A sku \in DOMAIN productMap[r] : \E l \in 1..Len(lookups[r]) : lookups[r][l].sku = sku
        /\ (apc[r] = "queue" \/ NormalReturn(r)) =>
               /\ Len(lookups[r]) = Len(uniqueSKUs[r])
               /\ \A i \in ValidIndexes(r) :
                      \E l \in 1..Len(lookups[r]) : lookups[r][l].sku = FilesOf(r)[i].sku
        /\ NormalReturn(r) =>
               \A i \in ValidIndexes(r) : \A j \in 1..Len(response[r].results) :
                   (/\ response[r].results[j].filename = FilesOf(r)[i].originalFilename
                    /\ FilesOf(r)[i].sku \notin DOMAIN productMap[r]) =>
                       /\ response[r].results[j].status = "skipped"
                       /\ response[r].results[j].productFound = FALSE
\* A returned run whose first lookup threw and whose second found a product: the
\* first SKU's file is skipped and the second's uploaded.
C18_Witness ==
    \E r \in Runs :
        /\ NormalReturn(r)
        /\ Len(lookups[r]) = 2
        /\ lookups[r][1].outcome = "Failed to query product"
        /\ lookups[r][2].outcome = "product"
        /\ \E i, j \in 1..Len(response[r].results) :
               /\ response[r].results[i].status = "skipped"
               /\ response[r].results[i].detectedSku = lookups[r][1].sku
               /\ response[r].results[j].status = "success"

\* C16: when every transport call returns and the scheduler is fair, every run
\* terminates: every submitted upload task is started and reaches MediaRegistered or
\* Error, processUploadQueue returns with every group processed and no task queued
\* or in flight; no run is aborted part-way.
RunComplete(r) ==
    /\ pc[r] \in {"idle", "done"}
    /\ gi[r] = NumGroups(r) + 1 \/ pc[r] = "idle"
    /\ pc[r] = "done" => Len(allResults[r]) = Offset(r, NumGroups(r) + 1)
    /\ \A g \in GroupIds(r) :
           UploadsRun(r, g) =>
               /\ AllSettled(r, g)
               /\ \A i \in 1..NumFiles(r, g) : Len(uploads[r][g][i].issued) > 0
AllRunsComplete ==
    /\ \A r \in Runs : RunComplete(r)
    /\ queue = <<>>
    /\ activeCount = 0
C16_EveryRunTerminates == <>AllRunsComplete
\* The run of PoolFiles files has returned: every upload was started and settled,
\* one of them failed, nothing is queued or in flight.
C16_Witness ==
    /\ AllRunsComplete
    /\ pc["r1"] = "done"
    /\ Cardinality({t \in LiveTaskIds : Settled(TaskOf(t))}) = PoolFiles
    /\ \E t \in LiveTaskIds : TaskOf(t).state = "Error"
    /\ \E t \in LiveTaskIds : TaskOf(t).state = "MediaRegistered"

\* C20: whenever parseFilename succeeds, the returned SKU is the upper-cased text that
\* precedes the last '-' of the extension-stripped name (with the hyphens inside it),
\* and sortOrder is the non-negative integer which the text after that '-' denotes.
Called == Len(output) = 1
Succeeded == Called /\ output[1].threw = "none"
LastHyphen(name) == CHOOSE i \in 1..Len(name) : name[i] = "-" /\ \A j \in (i + 1)..Len(name) : name[j] # "-"
TextBefore(name) == SubSeq(name, 1, LastHyphen(name) - 1)
TextAfter(name) == SubSeq(name, LastHyphen(name) + 1, Len(name))
\* A text denotes n when, blanks around it aside, it is a decimal numeral of value n.
Denotes(text, n) ==
    /\ Trim(text) # <<>>
    /\ \A i \in 1..Len(Trim(text)) : Trim(text)[i] \in DOMAIN DigitValue
    /\ Decimal(Trim(text)) = n
C20_SkuIsTextBeforeLastHyphen ==
    Succeeded => output[1].sku = ToUpperCase(TextBefore(StripExtension(input)))
C20_SortOrderIsDenoted ==
    Succeeded =>
        /\ output[1].sortOrder >= 0
        /\ Denotes(TextAfter(StripExtension(input)), output[1].sortOrder)
\* C20: on every successful parse both hold: the SKU is the upper-cased text before
\* the last '-' and sortOrder is the non-negative integer the text after it denotes.
C20_SkuAndSortOrderAsWritten == C20_SkuIsTextBeforeLastHyphen /\ C20_SortOrderIsDenoted

\* C21: parseFilename fails with NoSeparator iff the extension-stripped name has no
\* '-', with EmptySku iff the last '-' is at position 0 or the text before it is
\* blank, with InvalidSortNumber iff the text after the last '-' is no integer; the
\* checks apply in that order, so each failure presupposes that the earlier ones did
\* not apply, and no pair is returned for such a name.
HasHyphen(name) == \E i \in 1..Len(name) : name[i] = "-"
IsInteger(text) == \E n \in 0..(10 ^ Len(text)) : Denotes(text, n)
SkuIsBlank(name) == LastHyphen(name) = 1 \/ Trim(TextBefore(name)) = <<>>
C21_NoSeparatorIffNoHyphen ==
    Called =>
        (output[1].threw = "No hyphen found - cannot determine sort order"
            <=> ~HasHyphen(StripExtension(input)))
C21_EmptySkuIffBlankBefore ==
    Called =>
        (output[1].threw = "SKU cannot be empty"
            <=> HasHyphen(StripExtension(input)) /\ SkuIsBlank(StripExtension(input)))
C21_InvalidSortNumberIffNoInteger ==
    Called =>
        (output[1].threw = "Invalid sort number"
            <=> /\ HasHyphen(StripExtension(input))
                /\ ~SkuIsBlank(StripExtension(input))
                /\ ~IsInteger(TextAfter(StripExtension(input))))
\* C21: the three failures happen exactly in their cases, in that order.
C21_FailuresExactlyAsListed ==
    /\ C21_NoSeparatorIffNoHyphen
    /\ C21_EmptySkuIffBlankBefore
    /\ C21_InvalidSortNumberIffNoInteger

\* C22: validateFile returns valid iff the declared mime type is an allowed one and
\* 0 < size <= 20 MiB; each failing condition has its own reason and the conditions
\* are checked in the order type, too large, empty.
TwentyMiB == 20 * 1024 * 1024
TypeReasons == {InvalidTypeError(t) : t \in MimeTypes}
TooLargeReasons == {TooLargeError(sz) : sz \in FileSizes}
EmptyReasons == {EmptyError}
ReasonsDistinct ==
    /\ TypeReasons \cap TooLargeReasons = {}
    /\ TypeReasons \cap EmptyReasons = {}
    /\ TooLargeReasons \cap EmptyReasons = {}
ValidatedAs(types) ==
    Called =>
        /\ output[1].valid <=>
               input.type \in types /\ 0 < input.size /\ input.size <= TwentyMiB
        /\ input.type \notin types => output[1].error \in TypeReasons
        /\ input.type \in types /\ input.size > TwentyMiB =>
               output[1].error \in TooLargeReasons
        /\ input.type \in types /\ input.size = 0 => output[1].error \in EmptyReasons
        /\ ReasonsDistinct
\* C22 as stated: the allowed types are the four of jpeg, png, gif and webp.
C22_ValidIffFourTypesAndSize ==
    ValidatedAs({"image/jpeg", "image/png", "image/gif", "image/webp"})
\* C22 amended: "image/jpg" is accepted as well.
C22_ValidIffAllowedTypeAndSize ==
    ValidatedAs({"image/jpeg", "image/jpg", "image/png", "image/gif", "image/webp"})
\* A file declared "image/jpg" of exactly 20 MiB was accepted.
C22_Witness ==
    /\ Called
    /\ input = [type |-> "image/jpg", size |-> TwentyMiB]
    /\ output[1].valid

\* C23: groupFilesBySku returns a mapping in which every valid file appears exactly
\* once, under the key equal to its sku, no invalid file appears, and every list is
\* ascending by sortOrder with files of equal sortOrder in input order.
Places(grouped, f) ==
    {<<g, k>> \in (1..Len(grouped)) \X (1..Len(input)) :
        k <= Len(grouped[g].files) /\ grouped[g].files[k] = f}
InputIndex(f) == CHOOSE i \in 1..Len(input) : input[i] = f
KeysDistinct(grouped) ==
    \A g, h \in 1..Len(grouped) : grouped[g].sku = grouped[h].sku => g = h
ListSorted(fs) ==
    \A k, l \in 1..Len(fs) :
        k < l =>
            \/ fs[k].sortOrder < fs[l].sortOrder
            \/ fs[k].sortOrder = fs[l].sortOrder /\ InputIndex(fs[k]) < InputIndex(fs[l])
C23_ValidFilesGroupedOnceAndSorted ==
    Called =>
        LET grouped == output[1]
        IN /\ KeysDistinct(grouped)
           /\ \A i \in 1..Len(input) :
                  IF input[i].isValid
                  THEN /\ Cardinality(Places(grouped, input[i])) = 1
                       /\ \A p \in Places(grouped, input[i]) : grouped[p[1]].sku = input[i].sku
                  ELSE Places(grouped, input[i]) = {}
           /\ \A g \in 1..Len(grouped) :
                  /\ \A k \in 1..Len(grouped[g].files) :
                         \E i \in 1..Len(input) : input[i] = grouped[g].files[k]
                  /\ ListSorted(grouped[g].files)
\* Three files of one SKU given as sort orders 2, 1, 1 came back as the second, the
\* third, the first.
C23_Witness ==
    /\ Called
    /\ Len(input) = 3
    /\ \A i \in 1..3 : input[i].isValid /\ input[i].sku = input[1].sku
    /\ input[1].sortOrder = 2 /\ input[2].sortOrder = 1 /\ input[3].sortOrder = 1
    /\ Len(output[1]) = 1
    /\ output[1][1].files = <<input[2], input[3], input[1]>>

\* C24: grouping is idempotent: groupFilesBySku applied to the concatenation of the
\* lists of a grouped result gives the same keys and, per key, the same file sequence.
Regrouped == Len(output) = 2
Mapping(grouped) == {<<grouped[g].sku, grouped[g].files>> : g \in 1..Len(grouped)}
C24_RegroupingChangesNothing ==
    Regrouped =>
        /\ KeysDistinct(output[2])
        /\ Mapping(output[2]) = Mapping(output[1])
\* Two SKUs, the first one given with its two files in descending sort order and
\* enumerated second, were grouped and grouped again.
C24_Witness ==
    /\ Regrouped
    /\ Len(input) = 3
    /\ Len(output[1]) = 2
    /\ input[1].isValid /\ input[2].isValid
    /\ input[1].sku = input[2].sku /\ input[1].sortOrder > input[2].sortOrder
    /\ output[1][1].sku # input[1].sku
    /\ output[1][2].files = <<input[2], input[1]>>
    /\ output[2] = output[1]

\* C25: analyzeImagePattern returns no analysis iff the valid files cover fewer than
\* two distinct SKUs; otherwise totalSkus is the number of distinct SKUs.
DistinctSkus == {input[i].sku : i \in {j \in 1..Len(input) : input[j].isValid}}
Analysed == Called /\ ~output[1].isNull
C25_AnalysisIffTwoSkus ==
    Called =>
        /\ output[1].isNull <=> Cardinality(DistinctSkus) < 2
        /\ ~output[1].isNull => output[1].totalSkus = Cardinality(DistinctSkus)
\* Three files, one of them invalid, the other two of different SKUs: analysed as
\* two SKUs.
C25_Witness ==
    /\ Analysed
    /\ Len(input) = 3
    /\ \E i \in 1..3 : ~input[i].isValid
    /\ output[1].totalSkus = 2

\* C26: mostCommonCount is a per-SKU image count of maximal frequency among the SKUs
\* and skusWithExpectedCount is that frequency; of several counts of maximal
\* frequency the first in the enumeration of the frequency table is chosen.
CountOf(sku) == Cardinality({i \in 1..Len(input) : input[i].isValid /\ input[i].sku = sku})
Freq(c) == Cardinality({sku \in DistinctSkus : CountOf(sku) = c})
EntryOf(entries, c) == CHOOSE e \in 1..Len(entries) : entries[e].count = ToString(c)
C26_ModeFirstEnumerated ==
    Analysed =>
        LET m == output[1].mostCommonCount
            entries == CountFrequencyEntries(SkuGroups(input))
        IN /\ Freq(m) > 0
           /\ \A c \in 1..Len(input) : Freq(c) <= Freq(m)
           /\ output[1].skusWithExpectedCount = Freq(m)
           /\ \A e \in 1..Len(entries) :
                  e < EntryOf(entries, m) => entries[e].frequency < Freq(m)
\* Two SKUs, the first with two files and the second with one: both counts have
\* frequency 1 and the count 1, enumerated first, was chosen.
C26_Witness ==
    /\ Analysed
    /\ output[1].totalSkus = 2
    /\ CountOf(input[1].sku) = 2
    /\ Freq(1) = 1 /\ Freq(2) = 1
    /\ output[1].mostCommonCount = 1
    /\ output[1].skusWithExpectedCount = 1

\* C27: with n >= 2 SKUs and mode frequency f, isConsistentPattern is true iff
\* f >= ceil(0.5 * n); the code's test f >= n * 0.5 agrees with it.
CeilHalf(n) == (n + 1) \div 2
C27_ConsistentIffHalfOrMore ==
    Analysed =>
        /\ output[1].totalSkus >= 2
        /\ output[1].isConsistentPattern <=>
               output[1].skusWithExpectedCount >= CeilHalf(output[1].totalSkus)
\* Four SKUs of which exactly two share the most common count: consistent.  Three
\* SKUs with three different counts are the opposite case.
C27_Witness ==
    /\ Analysed
    /\ output[1].totalSkus = 4
    /\ output[1].skusWithExpectedCount = 2
    /\ output[1].isConsistentPattern

\* C28: for every SKU in a warning missingNumbers is ascending; if the SKU has gaps
\* it is exactly the integers strictly between its least and greatest sort order
\* that it lacks; if it has none, its count c is below mostCommonCount m, the
\* pattern is consistent and missingNumbers is max+1 .. max+(m-c); hasGaps is true
\* iff the first case applies.
OrdersOf(sku) == {input[i].sortOrder : i \in {j \in 1..Len(input) : input[j].isValid /\ input[j].sku = sku}}
LeastOf(S) == CHOOSE n \in S : \A o \in S : n <= o
GreatestOf(S) == CHOOSE n \in S : \A o \in S : o <= n
GapSet(sku) == ((LeastOf(OrdersOf(sku)) + 1)..(GreatestOf(OrdersOf(sku)) - 1)) \ OrdersOf(sku)
StrictlyAscending(ns) == \A k, l \in 1..Len(ns) : k < l => ns[k] < ns[l]
C28_MissingNumbersAsSpecified ==
    Analysed =>
        \A k \in 1..Len(output[1].warnings) :
            LET w == output[1].warnings[k]
                m == output[1].mostCommonCount
                c == CountOf(w.sku)
            IN /\ StrictlyAscending(w.missingNumbers)
               /\ w.hasGaps <=> GapSet(w.sku) # {}
               /\ IF GapSet(w.sku) # {}
                  THEN {w.missingNumbers[i] : i \in 1..Len(w.missingNumbers)} = GapSet(w.sku)
                  ELSE /\ c < m
                       /\ output[1].isConsistentPattern
                       /\ w.missingNumbers =
                              [i \in 1..(m - c) |-> GreatestOf(OrdersOf(w.sku)) + i]
\* One warning lists a gap, another one the two numbers that would follow the only
\* image of its SKU.
C28_Witness ==
    /\ Analysed
    /\ \E k, l \in 1..Len(output[1].warnings) :
           /\ output[1].warnings[k].hasGaps
           /\ output[1].warnings[k].missingNumbers = <<3>>
           /\ ~output[1].warnings[l].hasGaps
           /\ output[1].warnings[l].actualCount = 1
           /\ output[1].warnings[l].missingNumbers = <<2, 3>>

\* C29: the warnings list has exactly one warning for every SKU that has gaps or
\* whose image count is below mostCommonCount and none for any other SKU; a warning
\* carries expectedCount = mostCommonCount and the SKU's actualCount; the list is
\* ascending by SKU.
WarningsOf(sku) == {k \in 1..Len(output[1].warnings) : output[1].warnings[k].sku = sku}
BelowMode(sku) == CountOf(sku) < output[1].mostCommonCount
WarningsExactlyFor(Due(_)) ==
    Analysed =>
        /\ \A sku \in DistinctSkus :
               Cardinality(WarningsOf(sku)) = IF Due(sku) THEN 1 ELSE 0
        /\ \A k \in 1..Len(output[1].warnings) :
               /\ output[1].warnings[k].sku \in DistinctSkus
               /\ output[1].warnings[k].expectedCount = output[1].mostCommonCount
               /\ output[1].warnings[k].actualCount = CountOf(output[1].warnings[k].sku)
        /\ \A k, l \in 1..Len(output[1].warnings) :
               k < l => LocaleRank[output[1].warnings[k].sku] < LocaleRank[output[1].warnings[l].sku]
DueAsStated(sku) == GapSet(sku) # {} \/ BelowMode(sku)
DueWhenConsistent(sku) ==
    GapSet(sku) # {} \/ (output[1].isConsistentPattern /\ BelowMode(sku))
\* C29 as stated: a count below mostCommonCount is warned of whatever the pattern.
C29_WarningsForGapsOrBelowMode == WarningsExactlyFor(DueAsStated)
\* C29 amended: a count below mostCommonCount is warned of only when the pattern is
\* consistent.
C29_WarningsForGapsOrBelowModeIfConsistent == WarningsExactlyFor(DueWhenConsistent)
\* Five SKUs without a consistent pattern: one below the most common count and
\* without gaps has no warning; the SKUs "7" and "10" have gaps and their warnings
\* stand in the order "10", "7".
C29_Witness ==
    /\ Analysed
    /\ ~output[1].isConsistentPattern
    /\ \E sku \in DistinctSkus : BelowMode(sku) /\ GapSet(sku) = {} /\ WarningsOf(sku) = {}
    /\ Len(output[1].warnings) = 2
    /\ output[1].warnings[1].sku = "10"
    /\ output[1].warnings[2].sku = "7"

\* C30: with four SKUs of 3, 3, 3 and 2 images the analysis has mostCommonCount = 3
\* and isConsistentPattern = TRUE, and the SKU of 2 images has a warning whose
\* missingNumbers is one number, its greatest sort order plus 1.
CountsAre3332 ==
    /\ Cardinality(DistinctSkus) = 4
    /\ Cardinality({sku \in DistinctSkus : CountOf(sku) = 3}) = 3
    /\ Cardinality({sku \in DistinctSkus : CountOf(sku) = 2}) = 1
SkuOfTwo == CHOOSE sku \in DistinctSkus : CountOf(sku) = 2
WarningOfTwo == output[1].warnings[CHOOSE k \in WarningsOf(SkuOfTwo) : TRUE]
ModeIsThree ==
    /\ output[1].mostCommonCount = 3
    /\ output[1].isConsistentPattern
    /\ Cardinality(WarningsOf(SkuOfTwo)) = 1
\* C30 as stated: whatever the sort orders.
C30_OneTrailingNumber ==
    Called /\ CountsAre3332 =>
        /\ ~output[1].isNull
        /\ ModeIsThree
        /\ WarningOfTwo.missingNumbers = <<GreatestOf(OrdersOf(SkuOfTwo)) + 1>>
\* C30 amended: the one trailing number is given when the two sort orders of the
\* SKU leave no gap; otherwise the warning lists the gap.
C30_OneTrailingNumberUnlessGap ==
    Called /\ CountsAre3332 =>
        /\ ~output[1].isNull
        /\ ModeIsThree
        /\ IF GapSet(SkuOfTwo) = {}
           THEN /\ WarningOfTwo.missingNumbers = <<GreatestOf(OrdersOf(SkuOfTwo)) + 1>>
                /\ ~WarningOfTwo.hasGaps
           ELSE /\ {WarningOfTwo.missingNumbers[i] : i \in 1..Len(WarningOfTwo.missingNumbers)}
                       = GapSet(SkuOfTwo)
                /\ WarningOfTwo.hasGaps
\* Counts 3, 3, 3 and 2, the two images of the last SKU both numbered 2: the warning
\* names 3.
C30_Witness ==
    /\ Called
    /\ CountsAre3332
    /\ OrdersOf(SkuOfTwo) = {2}
    /\ ModeIsThree
    /\ WarningOfTwo.missingNumbers = <<3>>

\* C31: the product lookups of a request are strictly sequential and complete before
\* any upload work: at most one lookup is in flight, each distinct SKU of the valid
\* files is looked up exactly once, and no delete, upload-step or reorder call is
\* issued before the last lookup has returned.
LookupsIssued(r) == Len(lookups[r]) + (IF apc[r] = "lookup" THEN 1 ELSE 0)
LookupsOf(r, sku) == {l \in 1..Len(lookups[r]) : lookups[r][l].sku = sku}
ValidSkus(r) == {FilesOf(r)[i].sku : i \in ValidIndexes(r)}
LookupsOver(r) == apc[r] = "queue" \/ NormalReturn(r)
UploadWorkBegun(r) ==
    \/ pc[r] # "idle"
    \/ \E g \in GroupIds(r) : ~NoTransportCalls(r, g)
C31_LookupsSequentialBeforeUploads ==
    \A r \in Runs :
        /\ LookupsIssued(r) - Len(lookups[r]) <= 1
        /\ \A l \in 1..Len(lookups[r]) : lookups[r][l].sku \in ValidSkus(r)
        /\ \A sku \in ValidSkus(r) :
               /\ Cardinality(LookupsOf(r, sku)) <= 1
               /\ LookupsOver(r) => Cardinality(LookupsOf(r, sku)) = 1
        /\ UploadWorkBegun(r) =>
               /\ LookupsOver(r)
               /\ LookupsIssued(r) = Len(lookups[r])
               /\ Len(lookups[r]) = Cardinality(ValidSkus(r))
\* Three valid files of two SKUs, the first SKU twice: two lookups have returned
\* and an upload task of the run has issued its first transport call.
C31_Witness ==
    \E r \in Runs :
        /\ apc[r] = "queue"
        /\ Cardinality(ValidIndexes(r)) = 3
        /\ FilesOf(r)[1].sku = FilesOf(r)[3].sku
        /\ FilesOf(r)[1].sku # FilesOf(r)[2].sku
        /\ Len(lookups[r]) = 2
        /\ \E g \in GroupIds(r) : \E i \in 1..Len(uploads[r][g]) :
               Len(uploads[r][g][i].issued) > 0

\* C32: with seoOptimization the alt text passed to the registration step of a file is
\* "<productTitle> - <X>", X being altTextByPosition[sortOrder] if that position has an
\* entry and otherwise "View " and the sortOrder zero-padded to width 2; without
\* seoOptimization no alt text is computed.
HasEntry ==
    /\ "altTextByPosition" \in DOMAIN input.settings
    /\ input.file.sortOrder \in DOMAIN input.settings.altTextByPosition
EntryText == input.settings.altTextByPosition[input.file.sortOrder]
TwoDigits(n) == IF n < 10 THEN "0" \o ToString(n) ELSE ToString(n)
DefaultText == "View " \o TwoDigits(input.file.sortOrder)
AltTextWith(X) == input.product.title \o " - " \o X
NoAltText == output[1].altText = Undefined /\ output[1].alt = ""
C32_AltTextFromEntryOrDefault ==
    Called =>
        IF input.settings.seoOptimization
        THEN /\ output[1].alt = AltTextWith(IF HasEntry THEN EntryText ELSE DefaultText)
             /\ output[1].altText = output[1].alt
        ELSE NoAltText
\* C32 with an empty entry counted as no entry: the default text stands for a
\* position whose entry is missing or is the empty text.
C32_AltTextFromNonEmptyEntryOrDefault ==
    Called =>
        IF input.settings.seoOptimization
        THEN /\ output[1].alt =
                    AltTextWith(IF HasEntry /\ EntryText # "" THEN EntryText ELSE DefaultText)
             /\ output[1].altText = output[1].alt
        ELSE NoAltText
\* The file at position 2 of a product with a title, the mapping holding the empty
\* text for position 2 and a text for position 1: the default text was passed.
C32_Witness ==
    /\ Called
    /\ input.settings.seoOptimization
    /\ input.file.sortOrder = 2
    /\ input.product.title = "Shirt"
    /\ HasEntry
    /\ EntryText = ""
    /\ 1 \in DOMAIN input.settings.altTextByPosition
    /\ input.settings.altTextByPosition[1] = "Front"
    /\ output[1].alt = "Shirt - View 02"

\* C33: processUploadQueue leaves its inputs unchanged: groupedFiles, every product of
\* productMap and settings stay what they were at the start of the run, also when
\* delete, upload or reorder calls succeeded remotely; the media ids a delete removes
\* and the test for pre-existing media use the ids obtained at lookup time.
LookupMediaIds(r, g) == productMap[r][groupedFiles[r][g].sku].mediaIds
DeleteSucceeds(r, g) ==
    deleteCall[r][g].outcome = "pending" /\ deleteCall'[r][g].outcome = "ok"
DeleteUsesLookupIds(r, g) ==
    DeleteSucceeds(r, g) =>
        gallery'[ProductOf(r, g).id] =
            RemoveMedia(gallery[ProductOf(r, g).id], LookupMediaIds(r, g))
TestsUseLookupIds(r, g) ==
    (GroupPast(r, g) /\ UploadsRun(r, g)) =>
        /\ (deleteCall[r][g].issued = 1) =
               (settings[r].uploadStrategy = "replace" /\ Len(LookupMediaIds(r, g)) > 0)
        /\ (reorderCall[r][g].issued = 1) =
               (/\ settings[r].uploadStrategy = "prepend"
                /\ Len(LookupMediaIds(r, g)) > 0
                /\ Successes(r, g) > 0)
C33_InputsUnchanged ==
    [][/\ groupedFiles' = groupedFiles
       /\ productMap' = productMap
       /\ settings' = settings
       /\ \A r \in Runs : \A g \in GroupIds(r) :
              /\ DeleteUsesLookupIds(r, g)
              /\ TestsUseLookupIds(r, g)]_vars
\* A finished replace run of two SKUs of the same product: both deletes succeeded, the
\* gallery holds the medium the first group registered and none of the ids the lookup
\* gave, which the product of the map still lists.
C33_Witness ==
    \E r \in Runs :
        /\ pc[r] = "done"
        /\ NumGroups(r) = 2
        /\ settings[r].uploadStrategy = "replace"
        /\ \A g \in GroupIds(r) :
               /\ UploadsRun(r, g)
               /\ ProductOf(r, g) = ProductWithMedia
               /\ deleteCall[r][g].outcome = "ok"
        /\ \E k \in 1..Len(gallery[ProductWithMedia.id]) :
               gallery[ProductWithMedia.id][k] = NewMediaId(<<r, 1, 1>>)
        /\ \A k \in 1..Len(gallery[ProductWithMedia.id]) :
               \A j \in 1..Len(LookupMediaIds(r, 1)) :
                   gallery[ProductWithMedia.id][k] # LookupMediaIds(r, 1)[j]
        /\ LookupMediaIds(r, 1) = <<"m1", "m2">>

\* C34: within one run the SKU groups are processed strictly one after another: no
\* delete, upload step or reorder call of a later group is issued before every upload
\* task of each earlier group has settled and that group's reorder call, if any, has
\* returned; so upload tasks of two groups of one run are never unsettled together.
Unsettled(r, g) == {i \in 1..Len(uploads[r][g]) : ~Settled(uploads[r][g][i])}
GroupFinished(r, g) ==
    /\ Unsettled(r, g) = {}
    /\ UploadsRun(r, g) => AllSettled(r, g)
    /\ reorderCall[r][g].issued > 0 => CallReturned(reorderCall[r][g])
    /\ deleteCall[r][g].issued > 0 => CallReturned(deleteCall[r][g])
C34_GroupsOneAfterAnother ==
    \A r \in Runs : \A g, h \in GroupIds(r) :
        g < h =>
            /\ ~NoTransportCalls(r, h) => GroupFinished(r, g)
            /\ ~(Unsettled(r, g) # {} /\ Unsettled(r, h) # {})
\* Two groups with uploads: the first has settled and its reorder call has returned,
\* the second has an upload task in flight.
C34_Witness ==
    \E r \in Runs :
        /\ NumGroups(r) >= 2
        /\ AllSettled(r, 1)
        /\ reorderCall[r][1].issued = 1
        /\ CallReturned(reorderCall[r][1])
        /\ \E i \in 1..Len(uploads[r][2]) : InFlight(uploads[r][2][i])

\* C35: after a non-dry-run group in which every upload succeeded, the media newly
\* registered on the product stand in the gallery in ascending sortOrder of their
\* files, whatever the interleaving of the concurrently running upload tasks.
AllUploadsSucceeded(r, g) ==
    /\ GroupPast(r, g)
    /\ UploadsRun(r, g)
    /\ \A i \in 1..NumFiles(r, g) : AllOk(uploads[r][g][i])
InGallery(id, m) == \E k \in 1..Len(gallery[id]) : gallery[id][k] = m
C35_NewMediaInSortOrder ==
    \A r \in Runs : \A g \in GroupIds(r) :
        AllUploadsSucceeded(r, g) =>
            \A i, j \in 1..NumFiles(r, g) :
                LET id == ProductOf(r, g).id
                    mi == NewMediaId(<<r, g, i>>)
                    mj == NewMediaId(<<r, g, j>>)
                IN /\ InGallery(id, mi)
                   /\ SortedFiles(r, g)[i].sortOrder < SortedFiles(r, g)[j].sortOrder
                          => IndexInGallery(id, mi) < IndexInGallery(id, mj)

\* C36: in every result sequence returned for a list of files, productFound=false holds
\* exactly for the skipped results and for the error results of files rejected before
\* grouping; a success, dry-run or upload-task error result has productFound=true and
\* the id and title of the product its SKU resolved to; every error and every skipped
\* result carries a non-empty errorDetails.
FileOfResult(r, res) == FilesOf(r)[IndexOfName(r, res.filename)]
RejectedBeforeGrouping(r, res) == res.status = "error" /\ ~FileOfResult(r, res).isValid
FromUploadTask(r, res) == res.status = "error" /\ FileOfResult(r, res).isValid
CarriesProduct(r, res) ==
    /\ res.productFound
    /\ res.detectedSku \in DOMAIN productMap[r]
    /\ res.productId = productMap[r][res.detectedSku].id
    /\ res.productTitle = productMap[r][res.detectedSku].title
Reanalysed == Len(output) = 3
SkuSequence(files) == FirstAppearances(files)
C37_AnalysisOfMultiset ==
    /\ Reanalysed => output[2] = output[1]
    /\ (Len(output) >= 1 /\ ~output[1].isNull) =>
           \A c \in 1..Len(input) :
               /\ Freq(c) <= Freq(output[1].mostCommonCount)
               /\ Freq(c) = Freq(output[1].mostCommonCount) => output[1].mostCommonCount <= c
\* Two SKUs without integer-like names, one with two files and one with one, analysed
\* again with the SKUs met in the other order: the counts 1 and 2 tie and both
\* analyses give 1, with a warning.
C37_Witness ==
    /\ Reanalysed
    /\ ~output[1].isNull
    /\ DistinctSkus = {"A", "B"}
    /\ Freq(1) = 1
    /\ Freq(2) = 1
    /\ SkuSequence(output[3]) # SkuSequence(input)
    /\ output[2].mostCommonCount = 1
    /\ Len(output[2].warnings) > 0

\* C38: the failure "Sort number cannot be negative" of parseFilename is unreachable:
\* the separator is the last '-' of the name, so the text after it holds no '-', the
\* number read from it is either no number or is >= 0, and every successful parse has
\* sortOrder >= 0.
NoHyphenIn(text) == \A i \in 1..Len(text) : text[i] # "-"
ReadsNegative(text) == ~ParseInt(text).nan /\ ParseInt(text).value < 0
C38_NegativeUnreachable ==
    Called =>
        /\ output[1].threw # "Sort number cannot be negative"
        /\ HasHyphen(StripExtension(input)) =>
               /\ NoHyphenIn(TextAfter(StripExtension(input)))
               /\ ~ReadsNegative(TextAfter(StripExtension(input)))
        /\ Succeeded => output[1].sortOrder >= 0
\* A name whose number is written with a minus sign, "a--1": the sign is the last
\* '-' and so the separator; the parse succeeds with the SKU "A-" and sortOrder 1.
C38_Witness ==
    /\ Succeeded
    /\ input = <<"a", "-", "-", "1">>
    /\ ReadsNegative(SubSeq(input, 3, 4))
    /\ output[1].sku = <<"A", "-">>
    /\ output[1].sortOrder = 1

====
